---- MODULE Spec2Model ----
(***************************************************************************)
(* A model of ducku_cli's two analysis pipelines.                          *)
(*                                                                         *)
(*  (A) src/use_cases/pattern_search.py: collect_docs_artifacts, the       *)
(*      extraction engine that applies a list of SearchPatterns to the     *)
(*      documentation parts of a project and deduplicates the matches.     *)
(*  (B) src/use_cases/unused_modules.py: UnusedModules, which catalogs the *)
(*      project's modules, collects the closure of its imports and reports *)
(*      the modules no import matches.                                     *)
(*                                                                         *)
(* Text is modelled by TLA+ strings, read character by character with Len, *)
(* SubSeq and \o, so splitting, joining, suffixes and substring tests are  *)
(* computed as the Python code computes them.                              *)
(***************************************************************************)
EXTENDS Integers, Sequences, FiniteSets, TLC

VARIABLES
    \* ---- pipeline A: pattern_search.collect_docs_artifacts
    doc_parts,      \* p.documentation.doc_parts: the Documents, in order
    patterns,       \* the rule list passed to collect_docs_artifacts
    pc,             \* "ready" | "loop" | "raised": position of the call
    pi,             \* index of the outer loop (for pattern in patterns)
    di,             \* index of the inner loop (for dp in doc_parts)
    cache,          \* keys of the local dict cache
    artefacts,      \* the local list artefacts
    returned,       \* the lists returned by the calls made so far
    \* ---- pipeline B: UnusedModules.find_unused_modules
    project_root,   \* Project.project_root
    project_files,  \* Project.project_files, in order; each file carries what
                    \* the import extractor yields for it
    pcB,            \* "start" | "named" | "probed" | "modules" | "imports" | "done" |
                    \* "reported"
    all_modules,    \* dict module_name -> file path (collect_all_modules)
    all_imports,    \* set of strings (collect_all_imports)
    unused_modules, \* dict module_name -> file path (the result)
    named,          \* <<path, name>>: a direct get_module_name_from_file call
    probed,         \* <<method, path, result>>: a direct call of is_test_file
                    \* or is_entry_point_file
    report_text,    \* the string UnusedModules.report returns
    \* ---- pipeline P: the Project and its existence resolver
    file_system,    \* the files below the project root: path and text, in the
                    \* order the project lists them
    config,         \* the parsed .ducku.yaml
    project,        \* the Project object p
    pcP,            \* "new" | "built" | "asked" | "reported" | "raised"
    asked,          \* the last resolver call: method, argument, source, result
    result,         \* the text pattern_search.report returned
    \* ---- pipeline M: bin/cli.py, main() and start(base)
    multi_folder,   \* whether the environment sets MULTI_FOLDER
    listing,        \* os.listdir(MULTI_FOLDER) in its order; without
                    \* MULTI_FOLDER the one entry PROJECT_PATH names
    li,             \* position of main in the listing
    pcM,            \* "main" | "start" | "project" | "use_case" | "raise" |
                    \* "done" | "exit" | "aborted"
    uc,             \* index of the loop over use_cases_to_run
    exc,            \* the class of the exception in flight, "" if none
    events,         \* what the run did, in order: <<"start", name>>,
                    \* <<"title", name, title>>, <<"caught", name, class>>
    \* ---- pipeline J: helpers/json.py, collect_json_keys
    json_files,     \* the files a caller passes to collect_json_keys, in order
    ji,             \* how many of them have been passed
    pcJ,            \* "calls" | "raised": the caller goes on, or an exception
                    \* of collect_json_keys has reached it
    parallel_entities, \* the list the containers are appended to
    logged,         \* the errors passed to log.error, in order
    calls           \* one record per call: file, outcome, what it logged and
                    \* how many containers it appended

varsA == <<doc_parts, patterns, pc, pi, di, cache, artefacts, returned>>
varsB == <<project_root, project_files, pcB, all_modules, all_imports, unused_modules,
           named, probed, report_text>>
varsP == <<file_system, config, project, pcP, asked, result>>
varsM == <<multi_folder, listing, li, pcM, uc, exc, events>>
varsJ == <<json_files, ji, pcJ, parallel_entities, logged, calls>>
vars == <<doc_parts, patterns, pc, pi, di, cache, artefacts, returned,
          project_root, project_files, pcB, all_modules, all_imports, unused_modules,
          named, probed, report_text,
          file_system, config, project, pcP, asked, result,
          multi_folder, listing, li, pcM, uc, exc, events,
          json_files, ji, pcJ, parallel_entities, logged, calls>>

-----------------------------------------------------------------------------
(* Strings *)

Min(a, b) == IF a < b THEN a ELSE b

Char(s, i) == SubSeq(s, i, i)

\* Python: s.startswith(p)
StartsWith(s, p) == Len(p) <= Len(s) /\ SubSeq(s, 1, Len(p)) = p

\* Python: s.endswith(p)
EndsWith(s, p) == Len(p) <= Len(s) /\ SubSeq(s, Len(s) - Len(p) + 1, Len(s)) = p

\* Python: p in s
Contains(s, p) ==
    \E i \in 1..(Len(s) - Len(p) + 1) : SubSeq(s, i, i + Len(p) - 1) = p

\* Python: s.split(sep) for a one-character sep: always at least one part.
RECURSIVE SplitFrom(_, _, _)
SplitFrom(s, sep, i) ==
    LET hits == {k \in i..Len(s) : Char(s, k) = sep}
    IN IF hits = {} THEN <<SubSeq(s, i, Len(s))>>
       ELSE LET k == CHOOSE x \in hits : \A y \in hits : x <= y
            IN <<SubSeq(s, i, k - 1)>> \o SplitFrom(s, sep, k + 1)

Split(s, sep) == SplitFrom(s, sep, 1)

\* Python: sep.join(parts)
RECURSIVE Join(_, _)
Join(parts, sep) ==
    IF Len(parts) = 0 THEN ""
    ELSE IF Len(parts) = 1 THEN parts[1]
    ELSE parts[1] \o sep \o Join(Tail(parts), sep)

\* Python: parts[-i:] for 1 <= i <= len(parts)
LastParts(parts, i) == SubSeq(parts, Len(parts) - i + 1, Len(parts))

Range(f) == {f[i] : i \in DOMAIN f}

-----------------------------------------------------------------------------
(* Pipeline A: documents and pattern rules *)

\* A TLA+ string literal cannot hold NUL or ESC; these two characters stand
\* for them in the modelled texts.
NUL == "@"
ESC == "^"

\* Python: ord(c), as far as the engine reads it (below or not below 32).
Ord(c) ==
    CASE c = NUL  -> 0
      [] c = "\t" -> 9
      [] c = "\n" -> 10
      [] c = "\r" -> 13
      [] c = ESC  -> 27
      [] OTHER    -> 97

\* ord(c) < 32 and c not in '\n\r\t'
IsControl(c) == Ord(c) < 32 /\ c \notin {"\n", "\r", "\t"}

\* sum(1 for c in s if ord(c) < 32 and c not in '\n\r\t')
ControlCount(s) == Cardinality({i \in 1..Len(s) : IsControl(Char(s, i))})

BinaryWindow == 1000
BinaryLimit == 30

\* A faulty variant: only the null byte is looked for.
LooksBinaryNulOnly(content) == Contains(content, NUL)

\* '\0' in content or sum(... for c in content[:1000] ...) > 30
LooksBinary(content) ==
    \/ Contains(content, NUL)
    \/ ControlCount(SubSeq(content, 1, Min(Len(content), BinaryWindow))) > BinaryLimit

RECURSIVE Repeat(_, _)
Repeat(s, n) == IF n = 0 THEN "" ELSE s \o Repeat(s, n - 1)

Digits == {"0", "1", "2", "3", "4", "5", "6", "7", "8", "9"}
Upper == {"A", "B", "C", "D", "E", "F", "G", "H", "I", "J", "K", "L", "M",
          "N", "O", "P", "Q", "R", "S", "T", "U", "V", "W", "X", "Y", "Z"}

Lower == {"a", "b", "c", "d", "e", "f", "g", "h", "i", "j", "k", "l", "m",
          "n", "o", "p", "q", "r", "s", "t", "u", "v", "w", "x", "y", "z"}

\* The file extensions of the rules (exts, lines 4-9), as far as the texts
\* of the model use them
Exts == {".txt", ".yml", ".html", ".py", ".md"}

AllChars(s, set) == \A i \in 1..Len(s) : Char(s, i) \in set

\* The regular expressions of pattern_search.py, read on one
\* whitespace-delimited token of the text.
RegexMatches(rex, tok) ==
    CASE rex = "port" ->
            /\ Len(tok) \in 1..5
            /\ AllChars(tok, Digits)
            /\ (tok = "0" \/ Char(tok, 1) # "0")
      [] rex = "env" ->
            /\ Len(tok) \in 3..64
            /\ Char(tok, 1) \in Upper
            /\ AllChars(tok, Upper \cup Digits \cup {"_"})
      [] rex = "unixpath" ->
            /\ \E pre \in {"./", "../", "~/", "/"} : StartsWith(tok, pre)
            /\ ~Contains(tok, "//")
            /\ \E ext \in Exts : EndsWith(tok, ext)
      [] rex = "winpath" ->
            /\ \/ /\ Len(tok) > 3
                  /\ Char(tok, 1) \in Upper \cup Lower
                  /\ SubSeq(tok, 2, 3) = ":\\"
               \/ StartsWith(tok, "\\\\")
            /\ \E ext \in Exts : EndsWith(tok, ext)
      [] rex = "filename" ->
            /\ AllChars(tok, Upper \cup Lower \cup Digits \cup {".", "_", "-"})
            /\ \E ext \in Exts : EndsWith(tok, ext) /\ Len(tok) > Len(ext)
      [] OTHER -> FALSE

\* The filter predicates a rule names, decided on the match and the token
\* before it (its context window).
FilterPasses(name, match, before) ==
    CASE name = "is_port_context"    -> before \in {"port", "ports"}
      [] name = "is_env_var_context" -> before \in {"env", "environment", "variable"}
      [] name = "contains_"          -> Contains(match, "_")
      [] name = "not_mocked"         ->
            \A frag \in {"/path/to", "/some-dir/", "example.", "sample."} :
                ~Contains(match, frag)
      [] OTHER -> TRUE

TCPPort == [name |-> "TCP port", rex |-> "port",
            filters |-> <<"is_port_context">>]
EnvVar == [name |-> "Environment variable", rex |-> "env",
           filters |-> <<"is_env_var_context", "contains_">>]
\* A faulty variant: the Unix path rule without its filter.
UnixPathNoFilter == [name |-> "Unix path", rex |-> "unixpath", filters |-> <<>>]

UnixPath == [name |-> "Unix path", rex |-> "unixpath",
             filters |-> <<"not_mocked">>]
WindowsPath == [name |-> "Windows path", rex |-> "winpath", filters |-> <<>>]
Filename == [name |-> "Filename", rex |-> "filename",
             filters |-> <<"file_not_in_url", "file_not_in_exclusions",
                           "file_is_not_path">>]
\* A rule of a caller's own: collect_docs_artifacts takes any
\* list[SearchPattern]. It reads numbers like the port rule, without a filter.
AnyNumber == [name |-> "Number", rex |-> "port", filters |-> <<>>]

string_patterns == <<TCPPort, EnvVar>>
path_patterns == <<UnixPath, WindowsPath>>
files_patterns == <<Filename>>

\* The rule lists the calls are made with.
RuleLists ==
    {string_patterns, path_patterns, <<TCPPort>>,
     <<TCPPort, AnyNumber>>, <<AnyNumber, TCPPort>>}

Tokens(text) == Split(text, " ")

Before(toks, i) == IF i = 1 THEN "" ELSE toks[i - 1]

\* The regular expression of the rule finds the token at i.
RawMatchAt(pattern, toks, i) == RegexMatches(pattern.rex, toks[i])

\* All filter predicates of the rule pass on the token at i.
FiltersPass(pattern, toks, i) ==
    \A k \in DOMAIN pattern.filters :
        FilterPasses(pattern.filters[k], toks[i], Before(toks, i))

RECURSIVE FindFrom(_, _, _)
FindFrom(pattern, toks, i) ==
    IF i > Len(toks) THEN <<>>
    ELSE (IF RawMatchAt(pattern, toks, i) /\ FiltersPass(pattern, toks, i)
          THEN <<toks[i]>> ELSE <<>>) \o FindFrom(pattern, toks, i + 1)

\* SearchPattern.find_all(dp): the matches of the rule in the Document, in
\* text order, each m.group(0).
find_all(pattern, dp) == FindFrom(pattern, Tokens(dp.text), 1)

\* The Documents a project may hold. readErr: what dp.read() raises.
DocUniverse ==
    { [id |-> "d1", text |-> "runs on port 80", readErr |-> "none"],
      [id |-> "d2", text |-> "You have 80 attempts on port 443", readErr |-> "none"],
      [id |-> "d3", text |-> "env APP_PATH port 80 see /tmp/a" \o ESC \o ESC \o "b.txt",
       readErr |-> "none"],
      [id |-> "d4", text |-> "port 8080 " \o NUL, readErr |-> "none"],
      [id |-> "d5", text |-> "port 22 " \o Repeat(ESC, BinaryLimit + 1),
       readErr |-> "none"],
      [id |-> "d6", text |-> "port 21 ./abc/index.html", readErr |-> "OSError"],
      [id |-> "d7", text |-> "port 26", readErr |-> "MemoryError"] }

MaxDocs == 2
MaxCalls == 2

\* Sequences of distinct elements of S, of length 1..n
DistinctSeqs(S, n) ==
    UNION { {s \in [1..k -> S] : \A i, j \in 1..k : i # j => s[i] # s[j]} : k \in 1..n }

-----------------------------------------------------------------------------
(* Pipeline A: collect_docs_artifacts *)

\* A faulty variant: the cache outlives the call (a module-level dict).
StaleCache == cache

\* cache = {}: the dedup cache a call starts with. The model keeps the keys
\* of the dict; its values are never read.
FreshCache == {}

\* A faulty variant: the Documents are traversed from the last to the first.
DocAtReversed(k) == doc_parts[Len(doc_parts) + 1 - k]

\* for dp in p.documentation.doc_parts: the k-th Document of the traversal
DocAt(k) == doc_parts[k]

\* The matches the regular expression finds, whatever the filters say.
RECURSIVE RawFrom(_, _, _)
RawFrom(pattern, toks, i) ==
    IF i > Len(toks) THEN <<>>
    ELSE (IF RawMatchAt(pattern, toks, i) THEN <<toks[i]>> ELSE <<>>)
         \o RawFrom(pattern, toks, i + 1)

\* A faulty variant: the engine takes the raw matches of the regular expression.
MatchesUnfiltered(pattern, dp) == RawFrom(pattern, Tokens(dp.text), 1)

\* matches = pattern.find_all(dp)
Matches(pattern, dp) == find_all(pattern, dp)

\* A faulty variant: the cache is never consulted.
IsDuplicateNever(match, c) == FALSE

\* if match not in cache: the negation, "match is a duplicate"
IsDuplicate(match, c) == match \in c

\* Artifact(pattern=pattern, match=match, source=dp.source)
NewArtifact(pattern, match, dp) ==
    [pattern |-> pattern, match |-> match, source |-> dp.id]

\* for m in matches: ... (lines 60-72), from the k-th match on
RECURSIVE Collect(_, _, _, _, _, _)
Collect(pattern, dp, matches, k, c, a) ==
    IF k > Len(matches) THEN [cache |-> c, artefacts |-> a]
    ELSE LET match == matches[k] IN
         IF ControlCount(match) > 0
         THEN Collect(pattern, dp, matches, k + 1, c, a)
         ELSE IF ~IsDuplicate(match, c)
         THEN Collect(pattern, dp, matches, k + 1, c \cup {match},
                      Append(a, NewArtifact(pattern, match, dp)))
         ELSE Collect(pattern, dp, matches, k + 1, c \cup {match}, a)

\* A faulty variant: OSError is not caught.
CaughtErrorsNoOSError == {"UnicodeError", "ValueError"}

\* The exceptions the loop body catches (line 73).
CaughtErrors == {"UnicodeError", "ValueError", "OSError"}

\* One pass of the inner loop body (lines 53-75) for one rule and Document.
LoopBody(pattern, dp, c, a) ==
    IF dp.readErr \in CaughtErrors THEN [cache |-> c, artefacts |-> a]
    ELSE IF LooksBinary(dp.text) THEN [cache |-> c, artefacts |-> a]
    ELSE Collect(pattern, dp, Matches(pattern, dp), 1, c, a)

\* dp.read() raises an exception the loop body does not catch (line 73).
Propagates(dp) == dp.readErr # "none" /\ dp.readErr \notin CaughtErrors

InitA ==
    /\ doc_parts \in {<<>>} \cup DistinctSeqs(DocUniverse, MaxDocs)
    /\ patterns \in RuleLists
    /\ pc = "ready"
    /\ pi = 0
    /\ di = 0
    /\ cache = {}
    /\ artefacts = <<>>
    /\ returned = <<>>

\* collect_docs_artifacts(p, patterns) is called: lines 49-50.
Call ==
    /\ pc = "ready"
    /\ Len(returned) < MaxCalls
    /\ pc' = "loop"
    /\ artefacts' = <<>>
    /\ cache' = FreshCache
    /\ pi' = IF Len(doc_parts) = 0 THEN Len(patterns) + 1 ELSE 1
    /\ di' = 1
    /\ UNCHANGED <<doc_parts, patterns, returned>>
    /\ UNCHANGED <<varsB, varsP, varsM, varsJ>>

\* One iteration of "for pattern in patterns: for dp in doc_parts".
Iterate ==
    /\ pc = "loop"
    /\ pi <= Len(patterns)
    /\ ~Propagates(DocAt(di))
    /\ LET st == LoopBody(patterns[pi], DocAt(di), cache, artefacts) IN
        /\ cache' = st.cache
        /\ artefacts' = st.artefacts
    /\ IF di < Len(doc_parts)
       THEN di' = di + 1 /\ pi' = pi
       ELSE di' = 1 /\ pi' = pi + 1
    /\ UNCHANGED <<doc_parts, patterns, pc, returned>>
    /\ UNCHANGED <<varsB, varsP, varsM, varsJ>>

\* An exception of the loop body that line 73 does not name leaves
\* collect_docs_artifacts: the call ends without a result.
Raise ==
    /\ pc = "loop"
    /\ pi <= Len(patterns)
    /\ Propagates(DocAt(di))
    /\ pc' = "raised"
    /\ UNCHANGED <<doc_parts, patterns, pi, di, cache, artefacts, returned>>
    /\ UNCHANGED <<varsB, varsP, varsM, varsJ>>

\* return artefacts (line 76)
Return ==
    /\ pc = "loop"
    /\ pi > Len(patterns)
    /\ returned' = Append(returned, artefacts)
    /\ pc' = "ready"
    /\ UNCHANGED <<doc_parts, patterns, pi, di, cache, artefacts>>
    /\ UNCHANGED <<varsB, varsP, varsM, varsJ>>

-----------------------------------------------------------------------------
(* Pipeline B: paths *)

\* Python: str.lower(), one character
LowerChar(c) ==
    CASE c = "A" -> "a"
      [] c = "B" -> "b"
      [] c = "C" -> "c"
      [] c = "D" -> "d"
      [] c = "E" -> "e"
      [] c = "F" -> "f"
      [] c = "G" -> "g"
      [] c = "H" -> "h"
      [] c = "I" -> "i"
      [] c = "J" -> "j"
      [] c = "K" -> "k"
      [] c = "L" -> "l"
      [] c = "M" -> "m"
      [] c = "N" -> "n"
      [] c = "O" -> "o"
      [] c = "P" -> "p"
      [] c = "Q" -> "q"
      [] c = "R" -> "r"
      [] c = "S" -> "s"
      [] c = "T" -> "t"
      [] c = "U" -> "u"
      [] c = "V" -> "v"
      [] c = "W" -> "w"
      [] c = "X" -> "x"
      [] c = "Y" -> "y"
      [] c = "Z" -> "z"
      [] OTHER -> c

\* Python: s.lower()
RECURSIVE LowerFrom(_, _)
LowerFrom(s, i) == IF i > Len(s) THEN "" ELSE LowerChar(Char(s, i)) \o LowerFrom(s, i + 1)

ToLower(s) == LowerFrom(s, 1)

\* pathlib: Path(p).parts of a path without its leading "/"
PathParts(path) == Split(path, "/")

\* pathlib: Path(p).name
PathName(path) == LET parts == PathParts(path) IN parts[Len(parts)]

\* Python: name.rfind('.') + 1: the place of the last dot, 0 if there is none
LastDot(name) ==
    LET dots == {i \in 1..Len(name) : Char(name, i) = "."}
    IN IF dots = {} THEN 0 ELSE CHOOSE i \in dots : \A j \in dots : j <= i

\* pathlib: Path(p).suffix: from the last dot of the name, unless the name
\* starts with that dot or ends with it
PathSuffix(path) ==
    LET name == PathName(path)
        i == LastDot(name)
    IN IF 1 < i /\ i < Len(name) THEN SubSeq(name, i, Len(name)) ELSE ""

\* pathlib: Path(p).stem
PathStem(path) ==
    LET name == PathName(path)
        i == LastDot(name)
    IN IF 1 < i /\ i < Len(name) THEN SubSeq(name, 1, i - 1) ELSE name

\* pathlib: file_path.relative_to(root).parts, for a file under root
RelativeParts(path, root) ==
    PathParts(SubSeq(path, Len(root) + 2, Len(path)))

\* Python: [x for x in parts if x not in drop]
RECURSIVE Without(_, _)
Without(parts, drop) ==
    IF Len(parts) = 0 THEN <<>>
    ELSE (IF parts[1] \in drop THEN <<>> ELSE <<parts[1]>>) \o Without(Tail(parts), drop)

-----------------------------------------------------------------------------
(* Pipeline B: UnusedModules *)

common_src_dirs == {"src", "lib", "app", "source", "code"}

\* A faulty variant: the filtered directory parts are dropped altogether.
StemOnly(file_path, root) == PathStem(file_path)

\* UnusedModules.get_module_name_from_file
get_module_name_from_file(file_path, root) ==
    LET module_name == PathStem(file_path)
        rel == RelativeParts(file_path, root)
        parts == SubSeq(rel, 1, Len(rel) - 1)
        filtered_parts == Without(parts, common_src_dirs)
    IN IF Len(filtered_parts) > 0
       THEN Join(filtered_parts \o <<module_name>>, ".")
       ELSE module_name

test_patterns ==
    {"/test/", "/tests/", "/testing/", "test_", "_test.", ".test.",
     "spec_", "_spec.", ".spec."}

\* A faulty variant: the path is compared as written, not lower-cased.
is_test_file_as_written(file_path) ==
    \E pattern \in test_patterns : Contains(file_path, pattern)

\* UnusedModules.is_test_file
is_test_file(file_path) ==
    LET file_str == ToLower(file_path)
    IN \E pattern \in test_patterns : Contains(file_str, pattern)

entry_patterns ==
    {"/bin/", "/features/step_definitions/", "/features/support/",
     "/vendor/", "/packages/"}

entry_names ==
    {"main.py", "main.rb", "main.js", "main.ts", "main.java",
     "index.py", "index.rb", "index.js", "index.ts",
     "cli.py", "cli.rb", "cli.js", "cli.ts",
     "__main__.py", "app.py", "app.rb", "server.py", "server.rb"}

\* UnusedModules._is_language_specific_entry_point
is_language_specific_entry_point(file_path, ext) ==
    LET file_name == ToLower(PathName(file_path))
        file_str == ToLower(file_path)
    IN CASE ext = ".rb" ->
              \E pattern \in {"winagent", "register.rb"} : Contains(file_str, pattern)
         [] ext = ".js" ->
              \E pattern \in {"webpack.config", "rollup.config", "vite.config",
                              "babel.config", "jest.config", "eslint.config",
                              "prettier.config", "postcss.config", "tailwind.config",
                              "next.config", "nuxt.config", "svelte.config",
                              ".config.js"} : Contains(file_name, pattern)
         [] ext = ".ts" ->
              \/ EndsWith(file_name, ".d.ts")
              \/ \E pattern \in {"webpack.config", "rollup.config", "vite.config",
                                 "jest.config", "eslint.config", ".config.ts"} :
                     Contains(file_name, pattern)
         [] ext = ".java" ->
              \E pattern \in {"/models/", "/model/", "/dto/", "/entities/",
                              "/handlers/"} : Contains(file_str, pattern)
         [] OTHER -> FALSE

vendor_prefixes == <<"aws-", "aws_", "amazon-", "amazon_">>

\* for prefix in [...]: if name.startswith(prefix): name = name[len(prefix):]; break
StripVendorPrefix(name) ==
    LET hits == {k \in DOMAIN vendor_prefixes : StartsWith(name, vendor_prefixes[k])}
    IN IF hits = {} THEN name
       ELSE LET k == CHOOSE x \in hits : \A y \in hits : x <= y
            IN SubSeq(name, Len(vendor_prefixes[k]) + 1, Len(name))

\* A faulty variant: the directory markers are not consulted.
is_entry_point_file_no_dirs(file_path, root) ==
    ToLower(PathName(file_path)) \in entry_names

\* UnusedModules.is_entry_point_file
is_entry_point_file(file_path, root) ==
    LET file_str == ToLower(file_path)
        file_name == ToLower(PathName(file_path))
        ext == ToLower(PathSuffix(file_path))
        file_stem == ToLower(PathStem(file_path))
        project_root_name == StripVendorPrefix(ToLower(PathName(root)))
    IN \/ \E pattern \in entry_patterns : Contains(file_str, pattern)
       \/ file_name \in entry_names
       \/ is_language_specific_entry_point(file_path, ext)
       \/ Contains(file_stem, project_root_name)
       \/ Contains(project_root_name, file_stem)


\* dispatcher.is_supported_format: the extensions an import extractor exists for
supported_formats == {".py", ".js", ".java", ".go", ".rb", ".ts", ".tsx", ".jsx"}

is_supported_format(ext) == ext \in supported_formats

\* dispatcher.collect_imports_from_content(file_path): the raw import strings
\* the extractor finds in the file
collect_imports_from_content(file) == file.imports

\* Python: d[k] = v on a dict
DictPut(d, k, v) == [x \in DOMAIN d \cup {k} |-> IF x = k THEN v ELSE d[x]]

EmptyDict == [x \in {} |-> ""]

\* A faulty variant: test files are left out of the import scan.
ScansFileNoTests(file) ==
    /\ is_supported_format(ToLower(PathSuffix(file.path)))
    /\ ~is_test_file(file.path)

\* collect_all_imports reads this file (line 189)
ScansFile(file) == is_supported_format(ToLower(PathSuffix(file.path)))

\* collect_all_modules, from the k-th project file on (lines 163-177)
RECURSIVE ModulesFrom(_, _, _, _)
ModulesFrom(files, root, k, modules) ==
    IF k > Len(files) THEN modules
    ELSE LET file_path == files[k].path IN
         IF is_test_file(file_path) THEN ModulesFrom(files, root, k + 1, modules)
         ELSE IF is_entry_point_file(file_path, root)
         THEN ModulesFrom(files, root, k + 1, modules)
         ELSE IF is_supported_format(ToLower(PathSuffix(file_path)))
         THEN ModulesFrom(files, root, k + 1,
                          DictPut(modules, get_module_name_from_file(file_path, root),
                                  file_path))
         ELSE ModulesFrom(files, root, k + 1, modules)

\* UnusedModules.collect_all_modules
collect_all_modules(files, root) == ModulesFrom(files, root, 1, EmptyDict)

\* A faulty variant: the suffixes are taken from the front (parts[:i]).
SubImportsPrefixes(import_name) ==
    LET parts == Split(import_name, ".")
        slash_parts == Split(import_name, "/")
    IN {Join(SubSeq(parts, 1, i), ".") : i \in 1..Len(parts)}
       \cup (IF Contains(import_name, "/")
             THEN {Join(SubSeq(slash_parts, 1, i), "/") : i \in 1..Len(slash_parts)}
                  \cup {Join(SubSeq(slash_parts, 1, i), ".") : i \in 1..Len(slash_parts)}
             ELSE {})

\* The sub-paths added for one raw import (lines 196-210)
SubImports(import_name) ==
    LET parts == Split(import_name, ".")
        slash_parts == Split(import_name, "/")
    IN {Join(LastParts(parts, i), ".") : i \in 1..Len(parts)}
       \cup (IF Contains(import_name, "/")
             THEN {Join(LastParts(slash_parts, i), "/") : i \in 1..Len(slash_parts)}
                  \cup {Join(LastParts(slash_parts, i), ".") : i \in 1..Len(slash_parts)}
             ELSE {})

\* A faulty variant: the raw imports only, without their sub-paths.
collect_all_imports_raw(files) ==
    UNION { collect_imports_from_content(files[k])
            : k \in {x \in DOMAIN files : ScansFile(files[x])} }

\* UnusedModules.collect_all_imports
collect_all_imports(files) ==
    UNION { LET imports == collect_imports_from_content(files[k])
            IN imports \cup UNION {SubImports(import_name) : import_name \in imports}
            : k \in {x \in DOMAIN files : ScansFile(files[x])} }

\* A faulty variant: only the first direction of the suffix match is tried.
SuffixMatchOneWay(module_parts, import_parts) ==
    /\ Len(import_parts) >= Len(module_parts)
    /\ LastParts(import_parts, Len(module_parts)) = module_parts

\* The two suffix tests of lines 238-248
SuffixMatch(module_parts, import_parts) ==
    \/ /\ Len(import_parts) >= Len(module_parts)
       /\ LastParts(import_parts, Len(module_parts)) = module_parts
    \/ /\ Len(module_parts) >= Len(import_parts)
       /\ LastParts(module_parts, Len(import_parts)) = import_parts

\* is_imported, for one module of the catalog (lines 223-248)
IsImported(module_name, imports) ==
    \/ module_name \in imports
    \/ \E import_name \in imports :
           SuffixMatch(Split(module_name, "."), Split(import_name, "."))

\* The loop of find_unused_modules (lines 219-253)
UnusedOf(modules, imports) ==
    LET names == {n \in DOMAIN modules : ~IsImported(n, imports)}
    IN [n \in names |-> modules[n]]

\* The keys of the catalog in insertion order (a Python dict keeps the order
\* in which its keys were first assigned): lines 163-177, from the k-th file on
RECURSIVE KeysFrom(_, _, _, _)
KeysFrom(files, root, k, keys) ==
    IF k > Len(files) THEN keys
    ELSE LET file_path == files[k].path
             module_name == get_module_name_from_file(file_path, root)
         IN IF /\ ~is_test_file(file_path)
               /\ ~is_entry_point_file(file_path, root)
               /\ is_supported_format(ToLower(PathSuffix(file_path)))
               /\ module_name \notin Range(keys)
            THEN KeysFrom(files, root, k + 1, Append(keys, module_name))
            ELSE KeysFrom(files, root, k + 1, keys)

\* unused_modules.items(): the (module_name, file_path) pairs in dict order
Items(unused, files, root) ==
    LET keys == SelectSeq(KeysFrom(files, root, 1, <<>>), LAMBDA n : n \in DOMAIN unused)
    IN [i \in DOMAIN keys |-> <<keys[i], unused[keys[i]]>>]

\* The characters of the modelled paths, by ascending code point.
CodePoints == "-./0123456789ABCDEFGHIJKLMNOPQRSTUVWXYZ_abcdefghijklmnopqrstuvwxyz"

CodePoint(c) == CHOOSE i \in 1..Len(CodePoints) : Char(CodePoints, i) = c

\* Python: a < b on str
RECURSIVE StrLess(_, _)
StrLess(a, b) ==
    IF Len(b) = 0 THEN FALSE
    ELSE IF Len(a) = 0 THEN TRUE
    ELSE IF Char(a, 1) = Char(b, 1)
    THEN StrLess(SubSeq(a, 2, Len(a)), SubSeq(b, 2, Len(b)))
    ELSE CodePoint(Char(a, 1)) < CodePoint(Char(b, 1))

\* Python: x < y on (module_name, file_path) tuples
TupleLess(x, y) == StrLess(x[1], y[1]) \/ (x[1] = y[1] /\ StrLess(x[2], y[2]))

\* A faulty variant: the group is listed in dict order.
Unsorted(modules) == modules

\* Python: sorted(modules) (line 277)
RECURSIVE Sorted(_)
Sorted(modules) ==
    IF Len(modules) = 0 THEN <<>>
    ELSE LET m == CHOOSE i \in DOMAIN modules :
                      \A j \in DOMAIN modules : j # i => TupleLess(modules[i], modules[j])
         IN <<modules[m]>> \o
            Sorted([i \in 1..(Len(modules) - 1) |-> IF i < m THEN modules[i] ELSE modules[i + 1]])

\* Python: str(n) for n >= 0
RECURSIVE Str(_)
Str(n) ==
    IF n < 10 THEN Char("0123456789", n + 1)
    ELSE Str(n \div 10) \o Char("0123456789", (n % 10) + 1)

\* The keys of by_extension in insertion order (lines 265-270)
RECURSIVE ExtensionsFrom(_, _, _)
ExtensionsFrom(items, k, exts) ==
    IF k > Len(items) THEN exts
    ELSE LET ext == ToLower(PathSuffix(items[k][2]))
         IN IF ext \in Range(exts) THEN ExtensionsFrom(items, k + 1, exts)
            ELSE ExtensionsFrom(items, k + 1, Append(exts, ext))

\* The lines of one group (lines 277-279)
RECURSIVE EntryLines(_, _, _)
EntryLines(modules, root, k) ==
    IF k > Len(modules) THEN ""
    ELSE "  - " \o modules[k][1] \o " ("
         \o Join(RelativeParts(modules[k][2], root), "/") \o ")\n"
         \o EntryLines(modules, root, k + 1)

\* One pass of "for ext, modules in by_extension.items()" (lines 273-279)
RECURSIVE GroupsFrom(_, _, _, _)
GroupsFrom(items, exts, root, k) ==
    IF k > Len(exts) THEN ""
    ELSE LET ext == exts[k]
             modules == SelectSeq(items, LAMBDA it : ToLower(PathSuffix(it[2])) = ext)
         IN "\n" \o ext \o " modules:\n"
            \o Repeat("-", Len(ext) + 9) \o "\n"
            \o EntryLines(Sorted(modules), root, 1)
            \o GroupsFrom(items, exts, root, k + 1)

\* UnusedModules.report, from the result of find_unused_modules on
UnusedModules_report(unused, files, root) ==
    IF DOMAIN unused = {} THEN ""
    ELSE LET items == Items(unused, files, root)
         IN "Found " \o Str(Len(items)) \o " unused modules:\n\n"
            \o GroupsFrom(items, ExtensionsFrom(items, 1, <<>>), root, 1)
            \o "\nTotal unused modules: " \o Str(Len(items))


\* The project roots and the files (path below the root, raw imports the
\* extractor finds) a project may hold.
Roots == {"/w/proj", "/tests/proj"}

FileUniverse ==
    { [rel |-> "src/models/user.py",    imports |-> {}],
      [rel |-> "lib/models/user.py",    imports |-> {}],
      [rel |-> "bin/tool.py",           imports |-> {}],
      [rel |-> "test/test_tool.py",     imports |-> {"src.models.user"}],
      [rel |-> "core/configuration.py", imports |-> {"os"}],
      [rel |-> "app/helper.rb",         imports |-> {"core/configuration", "pkg/mod.sub"}],
      [rel |-> "utils.py",              imports |-> {"user"}],
      [rel |-> "src/Spec_util.py",      imports |-> {"core.configuration"}],
      [rel |-> "src/main.go",           imports |-> {}],
      [rel |-> "other/configuration.py", imports |-> {}] }

MaxFiles == 3

FileAt(root, f) == [path |-> root \o "/" \o f.rel, imports |-> f.imports]

ProjectsOf(root) ==
    {<<>>} \cup
    { [k \in DOMAIN fs |-> FileAt(root, fs[k])] : fs \in DistinctSeqs(FileUniverse, MaxFiles) }

IdleA ==
    /\ doc_parts = <<>>
    /\ patterns = <<>>
    /\ pc = "off"
    /\ pi = 0
    /\ di = 0
    /\ cache = {}
    /\ artefacts = <<>>
    /\ returned = <<>>

IdleB ==
    /\ project_root = ""
    /\ project_files = <<>>
    /\ pcB = "off"
    /\ all_modules = EmptyDict
    /\ all_imports = {}
    /\ unused_modules = EmptyDict
    /\ named = <<>>
    /\ probed = <<>>
    /\ report_text = ""

InitB ==
    /\ project_root \in Roots
    /\ project_files \in ProjectsOf(project_root)
    /\ pcB = "start"
    /\ all_modules = EmptyDict
    /\ all_imports = {}
    /\ unused_modules = EmptyDict
    /\ named = <<>>
    /\ probed = <<>>
    /\ report_text = ""

\* A direct call of get_module_name_from_file on one file of the project.
GetModuleName ==
    /\ pcB = "start"
    /\ \E k \in DOMAIN project_files :
         named' = <<project_files[k].path,
                    get_module_name_from_file(project_files[k].path, project_root)>>
    /\ pcB' = "named"
    /\ UNCHANGED <<project_root, project_files, all_modules, all_imports, unused_modules,
                   probed, report_text>>
    /\ UNCHANGED <<varsA, varsP, varsM, varsJ>>

\* A direct call of is_test_file on one file of the project.
IsTestFile ==
    /\ pcB = "start"
    /\ \E k \in DOMAIN project_files :
         probed' = <<"is_test_file", project_files[k].path,
                     is_test_file(project_files[k].path)>>
    /\ pcB' = "probed"
    /\ UNCHANGED <<project_root, project_files, all_modules, all_imports, unused_modules,
                   named, report_text>>
    /\ UNCHANGED <<varsA, varsP, varsM, varsJ>>

\* A direct call of is_entry_point_file on one file of the project.
IsEntryPointFile ==
    /\ pcB = "start"
    /\ \E k \in DOMAIN project_files :
         probed' = <<"is_entry_point_file", project_files[k].path,
                     is_entry_point_file(project_files[k].path, project_root)>>
    /\ pcB' = "probed"
    /\ UNCHANGED <<project_root, project_files, all_modules, all_imports, unused_modules,
                   named, report_text>>
    /\ UNCHANGED <<varsA, varsP, varsM, varsJ>>

\* find_unused_modules, line 216: all_modules = self.collect_all_modules()
CollectAllModules ==
    /\ pcB = "start"
    /\ all_modules' = collect_all_modules(project_files, project_root)
    /\ pcB' = "modules"
    /\ UNCHANGED <<project_root, project_files, all_imports, unused_modules, named, probed, report_text>>
    /\ UNCHANGED <<varsA, varsP, varsM, varsJ>>

\* find_unused_modules, line 217: all_imports = self.collect_all_imports()
CollectAllImports ==
    /\ pcB = "modules"
    /\ all_imports' = collect_all_imports(project_files)
    /\ pcB' = "imports"
    /\ UNCHANGED <<project_root, project_files, all_modules, unused_modules, named, probed, report_text>>
    /\ UNCHANGED <<varsA, varsP, varsM, varsJ>>

\* find_unused_modules, lines 219-253: the loop and the return
FindUnused ==
    /\ pcB = "imports"
    /\ unused_modules' = UnusedOf(all_modules, all_imports)
    /\ pcB' = "done"
    /\ UNCHANGED <<project_root, project_files, all_modules, all_imports, named, probed,
                   report_text>>
    /\ UNCHANGED <<varsA, varsP, varsM, varsJ>>

\* UnusedModules.report, lines 259-281: the text made of the result
Report ==
    /\ pcB = "done"
    /\ report_text' = UnusedModules_report(unused_modules, project_files, project_root)
    /\ pcB' = "reported"
    /\ UNCHANGED <<project_root, project_files, all_modules, all_imports, unused_modules,
                   named, probed>>
    /\ UNCHANGED <<varsA, varsP, varsM, varsJ>>

-----------------------------------------------------------------------------
(* Pipeline P: the Project and its existence resolver (src/core/project.py) *)

DriveLetters == Upper \ {"A", "B"}

OS_ROOT_PATHS ==
    {"~/", "/usr/", "/opt/", "/bin/", "/mnt", "/sbin/", "/lib/", "/etc/", "/var/",
     "/tmp/", "/home/", "/root/", "/path/to", "/directory/"}
    \cup {l \o ":\\" : l \in DriveLetters}
    \cup {l \o ":/" : l \in DriveLetters}

\* Python: s.lstrip("/")
RECURSIVE LStripSlashes(_)
LStripSlashes(s) ==
    IF Len(s) > 0 /\ Char(s, 1) = "/" THEN LStripSlashes(SubSeq(s, 2, Len(s))) ELSE s

\* pathlib: Path(s).parts of a relative s; empty and "." segments are dropped
PurePathParts(s) == Without(Split(s, "/"), {"", "."})

\* pathlib: resolve(strict=False) on segments: ".." leaves the directory
RECURSIVE ResolveFrom(_, _, _)
ResolveFrom(parts, k, acc) ==
    IF k > Len(parts) THEN acc
    ELSE IF parts[k] = ".."
    THEN ResolveFrom(parts, k + 1,
                     IF Len(acc) = 0 THEN acc ELSE SubSeq(acc, 1, Len(acc) - 1))
    ELSE ResolveFrom(parts, k + 1, Append(acc, parts[k]))

\* pathlib: (base / cand).resolve(strict=False), for an absolute base
Resolved(base, cand_parts) ==
    "/" \o Join(ResolveFrom(PurePathParts(base) \o cand_parts, 1, <<>>), "/")

\* pathlib: path.parent of an absolute path
Parent(path) ==
    LET parts == PurePathParts(path)
    IN "/" \o Join(SubSeq(parts, 1, Len(parts) - 1), "/")

\* The files of the disk; the directories are the ancestors of the files.
FilePaths(disk) == {disk[i].path : i \in DOMAIN disk}

DirPaths(disk) ==
    UNION { LET parts == PurePathParts(f) IN
            {"/" \o Join(SubSeq(parts, 1, k), "/") : k \in 0..(Len(parts) - 1)}
            : f \in FilePaths(disk) }

\* pathlib: path.is_file(), path.is_dir(), path.exists()
IsFile(disk, path) == path \in FilePaths(disk)
IsDir(disk, path) == path \in DirPaths(disk)
Exists(disk, path) == IsFile(disk, path) \/ IsDir(disk, path)

\* pathlib: file.read_text()
ReadText(disk, path) ==
    LET i == CHOOSE x \in DOMAIN disk : disk[x].path = path IN disk[i].text

\* Project.resolve_path_from_root
resolve_path_from_root(root, path) ==
    IF StartsWith(path, "/") THEN path ELSE root \o "/" \o path

\* Project.__init__, lines 43-45: the README files not yet in doc_paths
RECURSIVE ReadmesFrom(_, _, _)
ReadmesFrom(files, k, doc_paths) ==
    IF k > Len(files) THEN doc_paths
    ELSE IF StartsWith(PathName(files[k]), "README") /\ files[k] \notin Range(doc_paths)
    THEN ReadmesFrom(files, k + 1, Append(doc_paths, files[k]))
    ELSE ReadmesFrom(files, k + 1, doc_paths)

\* documentation.py: SUPPORTED_FORMATS
SUPPORTED_FORMATS == {".md", ".markdown", "markdown"}

\* DocFile(path): the Document of a file
DocFile(disk, path) == [id |-> path, text |-> ReadText(disk, path), readErr |-> "none"]

\* Documentation.process_file
process_file(disk, file) ==
    IF ToLower(PathSuffix(file)) \in SUPPORTED_FORMATS THEN <<DocFile(disk, file)>> ELSE <<>>

\* Documentation.process_folder: the files below the folder, in disk order
RECURSIVE process_folder(_, _, _)
process_folder(disk, full_path, k) ==
    IF k > Len(disk) THEN <<>>
    ELSE (IF StartsWith(disk[k].path, full_path \o "/")
          THEN process_file(disk, disk[k].path) ELSE <<>>)
         \o process_folder(disk, full_path, k + 1)

\* Documentation.from_project, from the k-th documentation path on
RECURSIVE from_project(_, _, _)
from_project(disk, doc_paths, k) ==
    IF k > Len(doc_paths) THEN <<>>
    ELSE (IF IsFile(disk, doc_paths[k]) THEN process_file(disk, doc_paths[k])
          ELSE IF IsDir(disk, doc_paths[k]) THEN process_folder(disk, doc_paths[k], 1)
          ELSE <<>>)
         \o from_project(disk, doc_paths, k + 1)

\* Project.__init__
Project(disk, root, cfg) ==
    LET cfgured ==
            [i \in DOMAIN cfg.documentation_paths |->
                resolve_path_from_root(root, cfg.documentation_paths[i])]
            \o [i \in DOMAIN cfg.documentation_paths_to_ignore |->
                resolve_path_from_root(root, cfg.documentation_paths_to_ignore[i])]
        files == [i \in DOMAIN disk |-> disk[i].path]
        doc_paths == ReadmesFrom(files, 1, cfgured)
    IN [project_root  |-> root,
        doc_paths     |-> doc_paths,
        project_files |-> files,
        doc_parts     |-> from_project(disk, doc_paths, 1)]

\* Source.get_root: the directory of a file source, "" (None) otherwise
get_root(source) == IF source.type = "file" THEN Parent(source.path) ELSE ""

\* if file in self.doc_paths (line 62)
IsDocPath(p, file) == file \in Range(p.doc_paths)

\* Project.contains_string
contains_string(p, disk, string, source) ==
    \E k \in DOMAIN p.project_files :
        /\ ~IsDocPath(p, p.project_files[k])
        /\ Contains(ReadText(disk, p.project_files[k]), string)

\* Project.contains_file
contains_file(p, disk, file_name, source) ==
    \/ /\ get_root(source) # ""
       /\ Exists(disk, get_root(source) \o "/" \o file_name)
       /\ IsFile(disk, get_root(source) \o "/" \o file_name)
    \/ \E k \in DOMAIN p.project_files : PathName(p.project_files[k]) = file_name

MOCK_FILENAME_PATTERNS ==
    {"hello", "my_", "path_to", "xxx", "yyy", "zzz", "log_", "log.", "logs.",
     "myfile", "yourfile"}

MOCK_DIR_PATTERNS == {"/some-dir/", "/some_dir/", "/somedir/"}

MOCK_PATH_PATTERNS ==
    {"/example.py", "/example.js", "/example.ts", "/sample.py", "/sample.js", "/sample.ts"}

\* pathlib: Path(s).name, "" for a path without segments
CandName(parts) == IF Len(parts) = 0 THEN "" ELSE parts[Len(parts)]

\* The four early returns of contains_path (lines 119-133)
IsExcluded(path) ==
    LET cand == PurePathParts(LStripSlashes(path))
        filename == ToLower(CandName(cand))
        path_lower == ToLower(path)
    IN \/ \E prefix \in OS_ROOT_PATHS : StartsWith(path, prefix)
       \/ \E excl \in MOCK_FILENAME_PATTERNS : Contains(filename, excl)
       \/ \E pattern \in MOCK_DIR_PATTERNS : Contains(path_lower, pattern)
       \/ \E pattern \in MOCK_PATH_PATTERNS : EndsWith(path_lower, pattern)

\* The doc_path, or its parent, that holds the candidate (lines 155-164)
UnderDocPath(p, disk, cand) ==
    \E k \in DOMAIN p.doc_paths :
        IF IsDir(disk, p.doc_paths[k])
        THEN Exists(disk, Resolved(p.doc_paths[k], cand))
        ELSE IsFile(disk, p.doc_paths[k])
             /\ Exists(disk, Resolved(Parent(p.doc_paths[k]), cand))

\* A faulty variant: the documentation paths are not tried.
contains_path_no_doc_paths(p, disk, path, source) ==
    LET cand == PurePathParts(LStripSlashes(path))
    IN IF IsExcluded(path) THEN FALSE
       ELSE IF Len(cand) = 1 THEN contains_file(p, disk, CandName(cand), source)
       ELSE \/ get_root(source) # "" /\ Exists(disk, Resolved(get_root(source), cand))
            \/ Exists(disk, Resolved(p.project_root, cand))

\* Project.contains_path
contains_path(p, disk, path, source) ==
    LET cand == PurePathParts(LStripSlashes(path))
    IN IF IsExcluded(path) THEN FALSE
       ELSE IF Len(cand) = 1 THEN contains_file(p, disk, CandName(cand), source)
       ELSE \/ get_root(source) # "" /\ Exists(disk, Resolved(get_root(source), cand))
            \/ Exists(disk, Resolved(p.project_root, cand))
            \/ UnderDocPath(p, disk, cand)

\* Project._extract_route_path: re.match(r'https?://[^/]+(/.*)', txt)
extract_route_path(txt) ==
    LET schemes == {sch \in {"http://", "https://"} : StartsWith(txt, sch)}
    IN IF schemes = {} THEN txt
       ELSE LET sch == CHOOSE x \in schemes : TRUE
                rest == SubSeq(txt, Len(sch) + 1, Len(txt))
                slashes == {i \in 1..Len(rest) : Char(rest, i) = "/"}
            IN IF slashes = {} \/ Char(rest, 1) = "/" THEN txt
               ELSE LET i == CHOOSE x \in slashes : \A y \in slashes : x <= y
                    IN SubSeq(rest, i, Len(rest))

file_extensions ==
    {".md", ".txt", ".html", ".htm", ".xml", ".json", ".yaml", ".yml",
     ".py", ".js", ".ts", ".go", ".java", ".rb", ".css", ".scss"}

\* Python: s.strip("/")
RECURSIVE StripSlashes(_)
StripSlashes(s) ==
    LET t == LStripSlashes(s)
    IN IF Len(t) > 0 /\ Char(t, Len(t)) = "/"
       THEN StripSlashes(SubSeq(t, 1, Len(t) - 1)) ELSE t

\* A faulty variant: the folders of the project root are not looked at.
FirstSegmentIsFolderNever(p, disk, route_path) == FALSE

\* Lines 91-97: the first segment of a rooted path is a folder of the root
FirstSegmentIsFolder(p, disk, route_path) ==
    /\ StartsWith(route_path, "/")
    /\ LET parts == Split(StripSlashes(route_path), "/")
       IN /\ parts[1] # ""
          /\ Exists(disk, p.project_root \o "/" \o parts[1])
          /\ IsDir(disk, p.project_root \o "/" \o parts[1])

\* Project.contains_route
contains_route(p, disk, route, source) ==
    LET route_path == extract_route_path(route)
    IN \/ \E ext \in file_extensions : EndsWith(ToLower(route_path), ext)
       \/ \E prefix \in OS_ROOT_PATHS : StartsWith(route_path, prefix)
       \/ FirstSegmentIsFolder(p, disk, route_path)
       \/ contains_string(p, disk, route_path, source)

\* collect_docs_artifacts as one call: the loops of lines 51-76 over the
\* Documents of the project
RECURSIVE CollectFrom(_, _, _, _, _)
CollectFrom(rules, docs, i, j, st) ==
    IF i > Len(rules) THEN st.artefacts
    ELSE IF j > Len(docs) THEN CollectFrom(rules, docs, i + 1, 1, st)
    ELSE CollectFrom(rules, docs, i, j + 1,
                     LoopBody(rules[i], docs[j], st.cache, st.artefacts))

collect_docs_artifacts(proj, rules) ==
    CollectFrom(rules, proj.doc_parts, 1, 1, [cache |-> {}, artefacts |-> <<>>])

\* artifact.source of a Document read from a file
SourceOf(artifact) == [type |-> "file", path |-> artifact.source]

\* The line report() adds for a path that is not found (line 90)
PathLine(artifact) ==
    "Path '" \o artifact.match \o "' found in " \o artifact.source
    \o ", but nowhere in the project. Probably outdated artifact\n"

\* The second loop of report() (lines 86-90), from the k-th Artifact on
RECURSIVE PathLinesFrom(_, _, _, _)
PathLinesFrom(proj, files, artifacts, k) ==
    IF k > Len(artifacts) THEN ""
    ELSE (IF ~contains_path(proj, files, artifacts[k].match, SourceOf(artifacts[k]))
          THEN PathLine(artifacts[k]) ELSE "")
         \o PathLinesFrom(proj, files, artifacts, k + 1)

\* report() calls p.contains_string(artifact.match) (line 83) and
\* p.contains_file(artifact.match) (line 94) without the source argument
\* that both methods require: the call raises TypeError for the first
\* Artifact of the string rules or of the filename rule.
ReportRaises(proj) ==
    \/ Len(collect_docs_artifacts(proj, string_patterns)) > 0
    \/ Len(collect_docs_artifacts(proj, files_patterns)) > 0

\* pattern_search.report(p), when no call of it raises
pattern_search_report(proj, files) ==
    PathLinesFrom(proj, files, collect_docs_artifacts(proj, path_patterns), 1)

\* The project on disk.
PRoot == "/w/proj"

ReadmeTexts ==
    {"see docs/guide.md and ./abc/index.html or /path/to/config.yml and /tmp/me/abc/file.txt ONLY_IN_README",
     "runs on port 8080 see /path/to/file.txt"}

\* The files of a project below its root, with the given README text
DiskAt(root, readme) ==
    << [path |-> root \o "/README.md",           text |-> readme],
       [path |-> root \o "/docs/guide.md",       text |-> "read ../src/app.py ONLY_IN_GUIDE"],
       [path |-> root \o "/docs/abc/index.html", text |-> "<html>"],
       [path |-> root \o "/src/app.py",          text |-> "route /v1/items port 8080"],
       [path |-> root \o "/api/users.py",        text |-> "def users"] >>

Disks == { DiskAt(PRoot, readme) : readme \in ReadmeTexts }

\* .ducku.yaml: the documentation paths of the configuration
Configs ==
    { [documentation_paths |-> dp, documentation_paths_to_ignore |-> <<>>]
      : dp \in {<<>>, <<"docs">>, <<"docs/guide.md">>} }
    \cup { [documentation_paths |-> <<>>, documentation_paths_to_ignore |-> <<"docs/guide.md">>] }

NoProject == [project_root |-> "", doc_paths |-> <<>>, project_files |-> <<>>,
              doc_parts |-> <<>>]

NoCall == [op |-> "", arg |-> "", source |-> [type |-> "string", path |-> ""],
           result |-> FALSE]

\* The sources a resolver call is made with: the Documents of the project,
\* or a text that comes from no file.
Sources(proj) ==
    {[type |-> "file", path |-> proj.doc_parts[i].id] : i \in DOMAIN proj.doc_parts}
    \cup {[type |-> "string", path |-> ""]}

AskedStrings == {"ONLY_IN_README", "ONLY_IN_GUIDE", "/v1/items", "nowhere"}

AskedPaths ==
    {"/usr/bin/tool.py", "/tmp/me/abc/file.txt", "docs/my_notes.txt",
     "/some-dir/run.py", "src/example.py", "/path/to/config.yml",
     "./abc/index.html", "/src/app.py", "../src/app.py", "nope/missing.py",
     "app.py", "index.html", "missing.py", "docs", "abc"}

AskedRoutes ==
    {"/api/users", "/v1/items", "/v2/none", "https://example.com/v1/items",
     "https://example.com/v2/none", "http://example.com/api/users",
     "/static/SITE.CSS", "/etc/hosts", "api/users", "ftp://example.com/api/users",
     "http://example.com"}

IdleP ==
    /\ file_system = <<>>
    /\ config = [documentation_paths |-> <<>>, documentation_paths_to_ignore |-> <<>>]
    /\ project = NoProject
    /\ pcP = "off"
    /\ asked = NoCall
    /\ result = ""

InitP ==
    /\ file_system \in Disks
    /\ config \in Configs
    /\ project = NoProject
    /\ pcP = "new"
    /\ asked = NoCall
    /\ result = ""

\* p = Project(project_root)
NewProject ==
    /\ pcP = "new"
    /\ project' = Project(file_system, PRoot, config)
    /\ pcP' = "built"
    /\ UNCHANGED <<file_system, config, asked, result>>
    /\ UNCHANGED <<varsA, varsB, varsM, varsJ>>

\* A call p.contains_string(string, source)
ContainsString ==
    /\ pcP = "built"
    /\ \E string \in AskedStrings, source \in Sources(project) :
         asked' = [op |-> "contains_string", arg |-> string, source |-> source,
                   result |-> contains_string(project, file_system, string, source)]
    /\ pcP' = "asked"
    /\ UNCHANGED <<file_system, config, project, result>>
    /\ UNCHANGED <<varsA, varsB, varsM, varsJ>>

\* A call p.contains_path(path, source)
ContainsPath ==
    /\ pcP = "built"
    /\ \E path \in AskedPaths, source \in Sources(project) :
         asked' = [op |-> "contains_path", arg |-> path, source |-> source,
                   result |-> contains_path(project, file_system, path, source)]
    /\ pcP' = "asked"
    /\ UNCHANGED <<file_system, config, project, result>>
    /\ UNCHANGED <<varsA, varsB, varsM, varsJ>>

\* A call p.contains_route(route, source)
ContainsRoute ==
    /\ pcP = "built"
    /\ \E route \in AskedRoutes, source \in Sources(project) :
         asked' = [op |-> "contains_route", arg |-> route, source |-> source,
                   result |-> contains_route(project, file_system, route, source)]
    /\ pcP' = "asked"
    /\ UNCHANGED <<file_system, config, project, result>>
    /\ UNCHANGED <<varsA, varsB, varsM, varsJ>>

\* report(p) returns its text
PatternSearchReport ==
    /\ pcP = "built"
    /\ ~ReportRaises(project)
    /\ result' = pattern_search_report(project, file_system)
    /\ pcP' = "reported"
    /\ UNCHANGED <<file_system, config, project, asked>>
    /\ UNCHANGED <<varsA, varsB, varsM, varsJ>>

\* report(p) ends with the TypeError of a resolver call
PatternSearchReportRaises ==
    /\ pcP = "built"
    /\ ReportRaises(project)
    /\ pcP' = "raised"
    /\ UNCHANGED <<file_system, config, project, asked, result>>
    /\ UNCHANGED <<varsA, varsB, varsM, varsJ>>

-----------------------------------------------------------------------------
(* bin/cli.py: main() and start(base) *)

MaxEntries == 3

\* The directory MULTI_FOLDER names
MultiFolder == "/w"

\* What MULTI_FOLDER holds: sub-directories with a project each, and files.
\* config_valid: whether .ducku.yaml passes the schema; disabled: its
\* disabled_use_cases; partial: what PartialMatch.report does on the project.
DirEntry(name, readme, valid, disabled, partial) ==
    [name |-> name, isdir |-> TRUE, readme |-> readme, config_valid |-> valid,
     cfg |-> [documentation_paths |-> <<"docs">>, documentation_paths_to_ignore |-> <<>>],
     disabled |-> disabled, partial |-> partial]

CleanReadme == "see docs/guide.md and ./abc/index.html or /path/to/config.yml and /tmp/me/abc/file.txt ONLY_IN_README"

PortReadme == "runs on port 8080 see /path/to/file.txt"

EntryUniverse ==
    { DirEntry("alpha", CleanReadme, TRUE, {}, "returns"),
      DirEntry("beta", PortReadme, TRUE, {}, "returns"),
      DirEntry("gamma", CleanReadme, FALSE, {}, "returns"),
      DirEntry("delta", CleanReadme, TRUE, {}, "raises"),
      DirEntry("eps", PortReadme, TRUE, {"pattern_search"}, "returns"),
      [name |-> "notes.txt", isdir |-> FALSE, readme |-> "", config_valid |-> TRUE,
       cfg |-> [documentation_paths |-> <<>>, documentation_paths_to_ignore |-> <<>>],
       disabled |-> {}, partial |-> "returns"] }

\* os.path.join(MULTI_FOLDER, name)
FullPath(entry) == MultiFolder \o "/" \o entry.name

\* use_cases_to_run (lines 26-30), with the name attribute of each class
use_cases_to_run ==
    << [class |-> "PartialMatch",  title |-> "Partial Match Detection",  name |-> "partial_match"],
       [class |-> "PatternSearch", title |-> "Pattern Search Analysis",  name |-> "pattern_search"],
       [class |-> "UnusedModules", title |-> "Unused Modules Detection", name |-> "unused_modules"] >>

\* parse_documentory_yaml raises ValueError for a configuration the schema
\* rejects (configuration.py:19-22); Project(base) passes it on.
ProjectRaises(entry) == ~entry.config_valid

\* p = Project(base) (line 31)
ProjectOf(entry) == Project(DiskAt(FullPath(entry), entry.readme), FullPath(entry), entry.cfg)

\* uci.report() (line 36): the class of the exception it raises, "" when it
\* returns
ReportOutcome(entry, class) ==
    IF class = "PartialMatch"
    THEN (IF entry.partial = "raises" THEN "RuntimeError" ELSE "")
    ELSE IF class = "PatternSearch"
    THEN (IF ReportRaises(ProjectOf(entry)) THEN "TypeError" ELSE "")
    ELSE ""

\* What the use cases do on the projects of the folder
ReportOutcomes ==
    [entry \in EntryUniverse |->
        [class \in {"PartialMatch", "PatternSearch", "UnusedModules"} |->
            ReportOutcome(entry, class)]]

\* Python: the classes below Exception, as far as the run raises them
ExceptionClasses == {"ValueError", "TypeError", "RuntimeError", "OSError", "UnicodeDecodeError"}

\* A faulty variant: start catches ValueError only.
StartCatchesValueErrorOnly(class) == class = "ValueError"

\* except Exception as e (line 42)
StartCatches(class) == class \in ExceptionClasses

IdleM ==
    /\ multi_folder = FALSE
    /\ listing = <<>>
    /\ li = 0
    /\ pcM = "off"
    /\ uc = 0
    /\ exc = ""
    /\ events = <<>>

InitM ==
    /\ multi_folder \in BOOLEAN
    /\ listing \in DistinctSeqs(EntryUniverse, MaxEntries)
    /\ (~multi_folder => Len(listing) = 1)
    /\ li = 0
    /\ pcM = "main"
    /\ uc = 0
    /\ exc = ""
    /\ events = <<>>

\* main, one pass of "for name in os.listdir(MULTI_FOLDER)" (lines 51-56):
\* an entry that is no directory is passed over, start is called for the other
ListDir ==
    /\ pcM = "main"
    /\ multi_folder
    /\ li < Len(listing)
    /\ li' = li + 1
    /\ pcM' = IF listing[li + 1].isdir THEN "start" ELSE "main"
    /\ UNCHANGED <<multi_folder, listing, uc, exc, events>>
    /\ UNCHANGED <<varsA, varsB, varsP, varsJ>>

\* main without MULTI_FOLDER (lines 58-59): start(base)
MainSingle ==
    /\ pcM = "main"
    /\ ~multi_folder
    /\ li = 0
    /\ li' = 1
    /\ pcM' = "start"
    /\ UNCHANGED <<multi_folder, listing, uc, exc, events>>
    /\ UNCHANGED <<varsA, varsB, varsP, varsJ>>

\* main returns: the loop is over, or the one start has returned
MainReturns ==
    /\ pcM = "main"
    /\ li = Len(listing)
    /\ pcM' = "done"
    /\ UNCHANGED <<multi_folder, listing, li, uc, exc, events>>
    /\ UNCHANGED <<varsA, varsB, varsP, varsJ>>

\* start(base), lines 22-24: exit() for a base that is no directory
Start ==
    /\ pcM = "start"
    /\ events' = Append(events, <<"start", listing[li].name>>)
    /\ pcM' = IF listing[li].isdir THEN "project" ELSE "exit"
    /\ UNCHANGED <<multi_folder, listing, li, uc, exc>>
    /\ UNCHANGED <<varsA, varsB, varsP, varsJ>>

\* p = Project(base) (line 31)
BuildProject ==
    /\ pcM = "project"
    /\ IF ProjectRaises(listing[li])
       THEN pcM' = "raise" /\ exc' = "ValueError" /\ uc' = uc
       ELSE pcM' = "use_case" /\ exc' = exc /\ uc' = 1
    /\ UNCHANGED <<multi_folder, listing, li, events>>
    /\ UNCHANGED <<varsA, varsB, varsP, varsJ>>

\* The body of "for uc_class, title in use_cases_to_run" (lines 33-41) for
\* the k-th use case: where start stands afterwards, the exception in
\* flight, and what was printed
LoopPass(entry, k) ==
    LET u == use_cases_to_run[k]
        raised == ReportOutcomes[entry][u.class]
    IN IF u.name \in entry.disabled
       THEN [pc |-> "use_case", exc |-> "", printed |-> <<>>, uc |-> k + 1]
       ELSE IF raised # ""
       THEN [pc |-> "raise", exc |-> raised, printed |-> <<>>, uc |-> k]
       ELSE [pc |-> "use_case", exc |-> "",
             printed |-> << <<"title", entry.name, u.title>> >>, uc |-> k + 1]

\* One pass of "for uc_class, title in use_cases_to_run" (lines 32-41)
RunUseCase ==
    /\ pcM = "use_case"
    /\ uc <= Len(use_cases_to_run)
    /\ pcM' = LoopPass(listing[li], uc).pc
    /\ exc' = LoopPass(listing[li], uc).exc
    /\ events' = events \o LoopPass(listing[li], uc).printed
    /\ uc' = LoopPass(listing[li], uc).uc
    /\ UNCHANGED <<multi_folder, listing, li>>
    /\ UNCHANGED <<varsA, varsB, varsP, varsJ>>

\* start returns after the last use case
StartReturns ==
    /\ pcM = "use_case"
    /\ uc > Len(use_cases_to_run)
    /\ pcM' = "main"
    /\ uc' = 0
    /\ UNCHANGED <<multi_folder, listing, li, exc, events>>
    /\ UNCHANGED <<varsA, varsB, varsP, varsJ>>

\* The exception leaves the try block (lines 42-44): the handler prints it
\* and start returns, or it passes through start and main
Except ==
    /\ pcM = "raise"
    /\ IF StartCatches(exc)
       THEN /\ events' = Append(events, <<"caught", listing[li].name, exc>>)
            /\ pcM' = "main"
       ELSE /\ events' = events
            /\ pcM' = "aborted"
    /\ exc' = ""
    /\ uc' = 0
    /\ UNCHANGED <<multi_folder, listing, li>>
    /\ UNCHANGED <<varsA, varsB, varsP, varsJ>>

NextM ==
    \/ ListDir
    \/ MainSingle
    \/ MainReturns
    \/ Start
    \/ BuildProject
    \/ RunUseCase
    \/ StartReturns
    \/ Except

-----------------------------------------------------------------------------
(* helpers/json.py: collect_json_keys *)

MaxJsonFiles == 2

\* A parsed value: a str, a dict (its items in order), a list, None, or a
\* value of another type
Str_(v) == [t |-> "str", v |-> v, items |-> <<>>]
Dict_(items) == [t |-> "dict", v |-> "", items |-> items]
List_(items) == [t |-> "list", v |-> "", items |-> items]
None_ == [t |-> "none", v |-> "", items |-> <<>>]
Int_ == [t |-> "int", v |-> "", items |-> <<>>]

LongValue == "this value is longer than fifty characters, so it is left out"

\* yaml.load(content, Loader=IgnoreUnknownTagsLoader) on the modelled texts:
\* the value, or the class of the error it raises
yaml_load(content) ==
    CASE content = "name: app\nport: 80"
            -> [err |-> "", data |-> Dict_(<< <<"name", Str_("app")>>, <<"port", Int_>> >>)]
      [] content = "server:\n  host: local\n  tags: [a, b]"
            -> [err |-> "", data |->
                  Dict_(<< <<"server",
                             Dict_(<< <<"host", Str_("local")>>,
                                      <<"tags", List_(<<Str_("a"), Str_("b")>>)>> >>)>> >>)]
      [] content = "" -> [err |-> "", data |-> None_]
      [] OTHER -> [err |-> "YAMLError", data |-> None_]

\* json.loads(content) on the modelled texts
json_loads(content) ==
    CASE content = "{\"k\": \"v\", \"note\": \"" \o LongValue \o "\"}"
            -> [err |-> "", data |-> Dict_(<< <<"k", Str_("v")>>, <<"note", Str_(LongValue)>> >>)]
      [] content = "[\"x\", [\"y\"]]"
            -> [err |-> "", data |-> List_(<<Str_("x"), List_(<<Str_("y")>>)>>)]
      [] content = "{}" -> [err |-> "", data |-> Dict_(<<>>)]
      [] OTHER -> [err |-> "JSONDecodeError", data |-> None_]

\* is_corrupted (lines 18-19)
is_corrupted(value) == Contains(value, "\n") \/ Len(value) > 50

\* EntitiesContainer(parent, type) holding the given Entity values
Container(parent, type, entities) == [parent |-> parent, type |-> type, entities |-> entities]

\* The containers a call appends, non-empty ones only (lines 34-37, 45-46)
NonEmpty(containers) == SelectSeq(containers, LAMBDA c : Len(c.entities) > 0)

\* collect_key_values (lines 21-46): the containers it appends to
\* parallel_entities, in order. DictFrom and ListFrom are its two loops from
\* the k-th item on, with the key and value items gathered so far.
RECURSIVE collect_key_values(_, _)
RECURSIVE DictFrom(_, _, _, _, _)
RECURSIVE ListFrom(_, _, _, _)
DictFrom(items, parent, k, keys, values) ==
    IF k > Len(items)
    THEN NonEmpty(<<Container(parent, "json_keys", keys),
                    Container(parent, "json_values", values)>>)
    ELSE LET key == items[k][1]
             value == items[k][2]
             keys2 == IF is_corrupted(key) THEN keys ELSE Append(keys, key)
         IN IF value.t = "str"
            THEN DictFrom(items, parent, k + 1, keys2,
                          IF is_corrupted(value.v) THEN values ELSE Append(values, value.v))
            ELSE collect_key_values(value, parent \o "::" \o key)
                 \o DictFrom(items, parent, k + 1, keys2, values)

ListFrom(items, parent, k, values) ==
    IF k > Len(items)
    THEN NonEmpty(<<Container(parent, "json_values", values)>>)
    ELSE LET value == items[k]
         IN IF value.t = "str"
            THEN ListFrom(items, parent, k + 1,
                          IF is_corrupted(value.v) THEN values ELSE Append(values, value.v))
            ELSE collect_key_values(value, parent) \o ListFrom(items, parent, k + 1, values)

collect_key_values(data, parent) ==
    IF data.t = "dict" THEN DictFrom(data.items, parent, 1, <<>>, <<>>)
    ELSE IF data.t = "list" THEN ListFrom(data.items, parent, 1, <<>>)
    ELSE <<>>

\* Python: bool(data) (line 63)
Truthy(data) ==
    \/ data.t \in {"dict", "list"} /\ Len(data.items) > 0
    \/ data.t = "str" /\ Len(data.v) > 0
    \/ data.t = "int"

\* file.read_text(): the class of the error it raises, "" when it returns
ReadError(file) == file.readErr

\* collect_json_keys (lines 48-64): whether the call returns or raises, what
\* it passes to log.error and what it appends
collect_json_keys(file) ==
    LET ext == PathSuffix(file.path)
    IN IF ext \in {".yaml", ".yml"}
       THEN IF ReadError(file) # ""
            THEN [raises |-> "", log |-> <<ReadError(file)>>, appended |-> <<>>]
            ELSE LET r == yaml_load(file.text)
                 IN IF r.err # ""
                    THEN [raises |-> "", log |-> <<r.err>>, appended |-> <<>>]
                    ELSE [raises |-> "", log |-> <<>>,
                          appended |-> IF Truthy(r.data)
                                       THEN collect_key_values(r.data, file.path) ELSE <<>>]
       ELSE IF ext = ".json"
       THEN IF ReadError(file) # ""
            THEN [raises |-> ReadError(file), log |-> <<>>, appended |-> <<>>]
            ELSE LET r == json_loads(file.text)
                 IN IF r.err # ""
                    THEN [raises |-> "", log |-> <<r.err>>, appended |-> <<>>]
                    ELSE [raises |-> "", log |-> <<>>,
                          appended |-> IF Truthy(r.data)
                                       THEN collect_key_values(r.data, file.path) ELSE <<>>]
       ELSE [raises |-> "", log |-> <<>>, appended |-> <<>>]

\* The structured files of a project
JsonFile(path, text, readErr) == [path |-> path, text |-> text, readErr |-> readErr]

JsonFileUniverse ==
    { JsonFile("/w/proj/cfg/app.yaml", "name: app\nport: 80", ""),
      JsonFile("/w/proj/cfg/server.yml", "server:\n  host: local\n  tags: [a, b]", ""),
      JsonFile("/w/proj/cfg/empty.yaml", "", ""),
      JsonFile("/w/proj/cfg/bad.yaml", "name: [app", ""),
      JsonFile("/w/proj/cfg/locked.yml", "", "OSError"),
      JsonFile("/w/proj/cfg/latin1.yaml", "", "UnicodeDecodeError"),
      JsonFile("/w/proj/cfg/UPPER.YAML", "name: [app", ""),
      JsonFile("/w/proj/data/ok.json", "{\"k\": \"v\", \"note\": \"" \o LongValue \o "\"}", ""),
      JsonFile("/w/proj/data/list.json", "[\"x\", [\"y\"]]", ""),
      JsonFile("/w/proj/data/bad.json", "{\"k\": ", ""),
      JsonFile("/w/proj/data/locked.json", "", "OSError"),
      JsonFile("/w/proj/data/latin1.json", "", "UnicodeDecodeError") }

IdleJ ==
    /\ json_files = <<>>
    /\ ji = 0
    /\ pcJ = "off"
    /\ parallel_entities = <<>>
    /\ logged = <<>>
    /\ calls = <<>>

InitJ ==
    /\ json_files \in DistinctSeqs(JsonFileUniverse, MaxJsonFiles)
    /\ ji = 0
    /\ pcJ = "calls"
    /\ parallel_entities = <<>>
    /\ logged = <<>>
    /\ calls = <<>>

CallRecord(file, r) ==
    [file |-> file, outcome |-> IF r.raises = "" THEN "returned" ELSE "raised",
     logged |-> Len(r.log), appended |-> Len(r.appended)]

\* A call collect_json_keys(file, parallel_entities) that returns
CollectJsonKeys ==
    /\ pcJ = "calls"
    /\ ji < Len(json_files)
    /\ collect_json_keys(json_files[ji + 1]).raises = ""
    /\ parallel_entities' = parallel_entities \o collect_json_keys(json_files[ji + 1]).appended
    /\ logged' = logged \o collect_json_keys(json_files[ji + 1]).log
    /\ calls' = Append(calls, CallRecord(json_files[ji + 1], collect_json_keys(json_files[ji + 1])))
    /\ ji' = ji + 1
    /\ UNCHANGED <<json_files, pcJ>>
    /\ UNCHANGED <<varsA, varsB, varsP, varsM>>

\* A call collect_json_keys(file, parallel_entities) that ends with the
\* exception of file.read_text() (line 58)
CollectJsonKeysRaises ==
    /\ pcJ = "calls"
    /\ ji < Len(json_files)
    /\ collect_json_keys(json_files[ji + 1]).raises # ""
    /\ calls' = Append(calls, CallRecord(json_files[ji + 1], collect_json_keys(json_files[ji + 1])))
    /\ ji' = ji + 1
    /\ pcJ' = "raised"
    /\ UNCHANGED <<json_files, parallel_entities, logged>>
    /\ UNCHANGED <<varsA, varsB, varsP, varsM>>

-----------------------------------------------------------------------------
(* The tool runs one use case on a project: the pattern search (A), the    *)
(* unused-module detection (B), the calls on a Project object (P), the     *)
(* command line (M), or the structured-file helper (J).                    *)

Init ==
    \/ InitA /\ IdleB /\ IdleP /\ IdleM /\ IdleJ
    \/ InitB /\ IdleA /\ IdleP /\ IdleM /\ IdleJ
    \/ InitP /\ IdleA /\ IdleB /\ IdleM /\ IdleJ
    \/ InitM /\ IdleA /\ IdleB /\ IdleP /\ IdleJ
    \/ InitJ /\ IdleA /\ IdleB /\ IdleP /\ IdleM

Next ==
    \/ Call
    \/ Iterate
    \/ Raise
    \/ Return
    \/ GetModuleName
    \/ IsTestFile
    \/ IsEntryPointFile
    \/ CollectAllModules
    \/ CollectAllImports
    \/ FindUnused
    \/ Report
    \/ NewProject
    \/ ContainsString
    \/ ContainsPath
    \/ ContainsRoute
    \/ PatternSearchReport
    \/ PatternSearchReportRaises
    \/ ListDir
    \/ MainSingle
    \/ MainReturns
    \/ Start
    \/ BuildProject
    \/ RunUseCase
    \/ StartReturns
    \/ Except
    \/ CollectJsonKeys
    \/ CollectJsonKeysRaises

Spec == Init /\ [][Next]_vars

\* main is one sequential program: a step that can be taken is taken.
InitMain == InitM /\ IdleA /\ IdleB /\ IdleP /\ IdleJ

MainSpec == InitMain /\ [][NextM]_vars /\ WF_vars(NextM)

-----------------------------------------------------------------------------
(* Properties of pipeline A *)

\* The engine skips the Document: it cannot be read, or it looks binary.
Skipped(dp) == dp.readErr # "none" \/ LooksBinary(dp.text)

\* Rule R finds the string s somewhere in the Document and its filters pass there.
Accepts(R, dp, s) ==
    LET toks == Tokens(dp.text)
    IN \E i \in DOMAIN toks :
         toks[i] = s /\ RawMatchAt(R, toks, i) /\ FiltersPass(R, toks, i)

\* Rule R finds the string s somewhere in the Document and its filters reject it there.
Rejects(R, dp, s) ==
    LET toks == Tokens(dp.text)
    IN \E i \in DOMAIN toks :
         toks[i] = s /\ RawMatchAt(R, toks, i) /\ ~FiltersPass(R, toks, i)

\* The k-th rule of the list accepts s in the d-th Document, which is not skipped.
ProducedBy(k, d, s) ==
    ~Skipped(doc_parts[d]) /\ Accepts(patterns[k], doc_parts[d], s)

AllTokens == UNION {Range(Tokens(doc_parts[d].text)) : d \in DOMAIN doc_parts}

Produced ==
    {s \in AllTokens : \E k \in DOMAIN patterns, d \in DOMAIN doc_parts : ProducedBy(k, d, s)}

CountOf(L, s) == Cardinality({i \in DOMAIN L : L[i].match = s})

\* C1 as stated: every returned list holds exactly one Artifact for every
\* match string some rule of the list accepts in some non-skipped Document,
\* and never two Artifacts with the same match string.
C1_AsStated ==
    \A n \in DOMAIN returned :
        /\ \A s \in Produced : CountOf(returned[n], s) = 1
        /\ \A i, j \in DOMAIN returned[n] :
               returned[n][i].match = returned[n][j].match => i = j

\* C1 (amended): every returned list holds exactly one Artifact for every
\* match string free of control characters (other than newline, carriage
\* return and tab) that some rule of the list accepts in some non-skipped
\* Document, none for an accepted string that holds such a character, and
\* never two Artifacts with the same match string.
C1_Dedup ==
    \A n \in DOMAIN returned :
        /\ \A s \in Produced :
               CountOf(returned[n], s) = (IF ControlCount(s) = 0 THEN 1 ELSE 0)
        /\ \A i, j \in DOMAIN returned[n] :
               returned[n][i].match = returned[n][j].match => i = j

\* A call has returned the one Artifact of a string that two Documents produce.
C1_Witness ==
    \E n \in DOMAIN returned : \E s \in Produced :
        /\ CountOf(returned[n], s) = 1
        /\ Cardinality({d \in DOMAIN doc_parts :
                           \E k \in DOMAIN patterns : ProducedBy(k, d, s)}) >= 2


\* The Documents in which some rule of the list produces s
DocsProducing(s) ==
    {d \in DOMAIN doc_parts : \E k \in DOMAIN patterns : ProducedBy(k, d, s)}

\* The (rule, Document) pairs that produce s
PairsProducing(s) ==
    {kd \in (DOMAIN patterns) \X (DOMAIN doc_parts) : ProducedBy(kd[1], kd[2], s)}

\* The first pair of the traversal: rules in list order, Documents in
\* doc_parts order under each rule.
FirstPair(S) ==
    CHOOSE kd \in S : \A o \in S : kd[1] < o[1] \/ (kd[1] = o[1] /\ kd[2] <= o[2])

FirstDoc(S) == CHOOSE d \in S : \A o \in S : d <= o

\* C2 as stated: the Artifact of a match string s carries as its source the
\* first Document, in the order of doc_parts, that produces s.
C2_AsStated ==
    \A n \in DOMAIN returned : \A i \in DOMAIN returned[n] :
        LET a == returned[n][i] IN
        /\ DocsProducing(a.match) # {}
        /\ a.source = doc_parts[FirstDoc(DocsProducing(a.match))].id

\* C2 (amended): the Artifact of a match string s carries the rule and the
\* Document of the first (rule, Document) pair that produces s, the pairs
\* taken rule by rule in list order and, under one rule, Document by Document
\* in the order of doc_parts. Under a list of one rule that is the first
\* Document that produces s.
C2_FirstPairWins ==
    \A n \in DOMAIN returned : \A i \in DOMAIN returned[n] :
        LET a == returned[n][i] IN
        /\ PairsProducing(a.match) # {}
        /\ LET kd == FirstPair(PairsProducing(a.match)) IN
            /\ a.pattern = patterns[kd[1]]
            /\ a.source = doc_parts[kd[2]].id
            /\ Len(patterns) = 1 =>
                   a.source = doc_parts[FirstDoc(DocsProducing(a.match))].id

\* A call under a list of two rules has returned an Artifact whose string two
\* Documents produce.
C2_Witness ==
    /\ Len(patterns) >= 2
    /\ \E n \in DOMAIN returned : \E i \in DOMAIN returned[n] :
           Cardinality(DocsProducing(returned[n][i].match)) >= 2

HasArtifact(L, m, R) == \E i \in DOMAIN L : L[i].match = m /\ L[i].pattern = R

\* C3 as stated: if the filter predicates of rule R reject a raw match m in a
\* Document, no Artifact with match m and pattern R is returned.
C3_AsStated ==
    \A n \in DOMAIN returned : \A k \in DOMAIN patterns : \A d \in DOMAIN doc_parts :
        \A m \in AllTokens :
            Rejects(patterns[k], doc_parts[d], m) => ~HasArtifact(returned[n], m, patterns[k])

\* C3 (amended): if the filter predicates of rule R reject a raw match m in a
\* Document and accept the string m at no place of a non-skipped Document, no
\* Artifact with match m and pattern R is returned.
C3_RejectedEverywhere ==
    \A n \in DOMAIN returned : \A k \in DOMAIN patterns : \A m \in AllTokens :
        (/\ \E d \in DOMAIN doc_parts : Rejects(patterns[k], doc_parts[d], m)
         /\ \A j \in DOMAIN patterns : \A d \in DOMAIN doc_parts :
                patterns[j] = patterns[k] => ~ProducedBy(j, d, m))
        => ~HasArtifact(returned[n], m, patterns[k])

\* A call has returned Artifacts, none of them for a string that its rule
\* finds in a non-skipped Document and rejects everywhere.
C3_Witness ==
    \E n \in DOMAIN returned : \E k \in DOMAIN patterns : \E m \in AllTokens :
        /\ returned[n] # <<>>
        /\ \E d \in DOMAIN doc_parts :
               ~Skipped(doc_parts[d]) /\ Rejects(patterns[k], doc_parts[d], m)
        /\ \A d \in DOMAIN doc_parts : ~ProducedBy(k, d, m)
        /\ ~HasArtifact(returned[n], m, patterns[k])

ArtifactSet(L) == {<<L[i].match, L[i].pattern>> : i \in DOMAIN L}

\* C4: the calls made over the same Documents and rule list return the same
\* set of (match, pattern) Artifacts.
C4_SameArtifacts ==
    \A i, j \in DOMAIN returned : ArtifactSet(returned[i]) = ArtifactSet(returned[j])

\* Two calls have returned, the first with an Artifact.
C4_Witness == Len(returned) >= 2 /\ returned[1] # <<>>

-----------------------------------------------------------------------------
(* Properties of pipeline B *)

\* x has trailing dot-segments equal to the full segment sequence of y:
\* x is y, or x ends with a dot followed by y.
HasTrailingSegments(x, y) == x = y \/ EndsWith(x, "." \o y)

\* "Used" in the words of the claim.
UsedByClosure(id, closure) ==
    \/ id \in closure
    \/ \E imp \in closure : HasTrailingSegments(imp, id)
    \/ \E imp \in closure : HasTrailingSegments(id, imp)

\* C5: find_unused_modules returns exactly the modules of the catalog whose
\* identifier is not in the import closure, is not the trailing segment
\* sequence of an import and does not end with the segment sequence of an
\* import; each with the path the catalog holds.
C5_UsedIffSuffixMatch ==
    pcB = "done" =>
        /\ DOMAIN unused_modules =
               {n \in DOMAIN all_modules : ~UsedByClosure(n, all_imports)}
        /\ \A n \in DOMAIN unused_modules : unused_modules[n] = all_modules[n]

\* A run has ended with one module used only because its identifier ends
\* with an import, and another module reported unused.
C5_Witness ==
    /\ pcB = "done"
    /\ DOMAIN unused_modules # {}
    /\ \E n \in DOMAIN all_modules :
           /\ n \notin DOMAIN unused_modules
           /\ n \notin all_imports
           /\ \E imp \in all_imports : HasTrailingSegments(n, imp)

\* The file qualifies as a module: no test file, no entry point, supported.
Qualifies(path) ==
    /\ ~is_test_file(path)
    /\ ~is_entry_point_file(path, project_root)
    /\ is_supported_format(ToLower(PathSuffix(path)))

HoldsPath(dict, path) == \E n \in DOMAIN dict : dict[n] = path

\* C6 as stated: every qualifying project file has a catalog entry of its
\* own, and is reported unused if no import matches its identifier, whatever
\* other files the project holds.
C6_AsStated ==
    pcB = "done" =>
        \A k \in DOMAIN project_files :
            LET path == project_files[k].path IN
            Qualifies(path) =>
                /\ HoldsPath(all_modules, path)
                /\ ~UsedByClosure(get_module_name_from_file(path, project_root), all_imports)
                       => HoldsPath(unused_modules, path)

ExcludedFiles == {project_root \o "/bin/tool.py", project_root \o "/test/test_tool.py"}

\* C7: bin/tool.py and test/test_tool.py under the project root are never in
\* the catalog and never in the result of find_unused_modules.
C7_ExcludedNeverUnused ==
    \A path \in ExcludedFiles :
        ~HoldsPath(all_modules, path) /\ ~HoldsPath(unused_modules, path)

\* A run has ended on a project that holds both files, imported by no file,
\* and has reported some other module.
C7_Witness ==
    /\ pcB = "done"
    /\ \A path \in ExcludedFiles : \E k \in DOMAIN project_files : project_files[k].path = path
    /\ ~UsedByClosure("bin.tool", all_imports)
    /\ ~UsedByClosure("test.test_tool", all_imports)
    /\ DOMAIN unused_modules # {}

\* The places of the character c in s
Places(s, c) == {i \in 1..Len(s) : Char(s, i) = c}

\* s with every "/" turned into "."
RECURSIVE DotsForSlashes(_)
DotsForSlashes(s) ==
    IF Len(s) = 0 THEN ""
    ELSE (IF Char(s, 1) = "/" THEN "." ELSE Char(s, 1))
         \o DotsForSlashes(SubSeq(s, 2, Len(s)))

\* The suffixes of s that start at its start or right after a character c
SuffixesAfter(s, c) == {SubSeq(s, i + 1, Len(s)) : i \in {0} \cup Places(s, c)}

\* The closure of one raw import in the words of the claim.
ClosureOf(raw) ==
    {raw} \cup SuffixesAfter(raw, ".")
          \cup (IF Places(raw, "/") # {}
                THEN LET ss == SuffixesAfter(raw, "/")
                     IN ss \cup {DotsForSlashes(t) : t \in ss}
                ELSE {})

RawImports ==
    UNION {project_files[k].imports :
             k \in {x \in DOMAIN project_files :
                      is_supported_format(ToLower(PathSuffix(project_files[x].path)))}}

\* C8: collect_all_imports returns exactly the union, over the raw imports
\* of all supported project files, of the raw import, its dot-suffixes and,
\* when it holds a "/", its slash-suffixes in slash-joined and dot-joined
\* rendering; it is a superset of the raw imports.
C8_ClosureExact ==
    pcB \in {"imports", "done"} =>
        /\ all_imports = UNION {ClosureOf(raw) : raw \in RawImports}
        /\ RawImports \subseteq all_imports

\* The imports are collected from a project with a dotted import and a
\* slash import, in files of two languages.
C8_Witness ==
    /\ pcB = "imports"
    /\ {"src.models.user", "core/configuration"} \subseteq RawImports
    /\ {"models.user", "user", "configuration", "core.configuration"} \subseteq all_imports

\* The imports of the file reach the module identifier n.
ImportsReach(file, n) == UsedByClosure(n, UNION {ClosureOf(raw) : raw \in file.imports})

\* C9: the imports of every supported file, test files and entry points
\* included, are in the closure, and a module such a file imports is not
\* reported unused.
C9_TestImportsCount ==
    pcB = "done" =>
        \A k \in DOMAIN project_files :
            LET file == project_files[k] IN
            is_supported_format(ToLower(PathSuffix(file.path))) =>
                /\ file.imports \subseteq all_imports
                /\ \A n \in DOMAIN all_modules :
                       ImportsReach(file, n) => n \notin DOMAIN unused_modules

\* A run has ended with a module of the catalog that only a test file imports.
C9_Witness ==
    /\ pcB = "done"
    /\ \E n \in DOMAIN all_modules :
           /\ n \notin DOMAIN unused_modules
           /\ \E k \in DOMAIN project_files :
                  is_test_file(project_files[k].path) /\ ImportsReach(project_files[k], n)
           /\ \A k \in DOMAIN project_files :
                  ~is_test_file(project_files[k].path) => ~ImportsReach(project_files[k], n)

\* The identifier in the words of the claim: the directory segments of the
\* root-relative path without the common source-root names, then the stem,
\* joined by dots.
IdentifierOf(path, root) ==
    LET rel == SubSeq(path, Len(root) + 2, Len(path))
        segs == Split(rel, "/")
        dirs == [i \in 1..(Len(segs) - 1) |-> segs[i]]
        kept == Without(dirs, {"src", "lib", "app", "source", "code"})
    IN Join(kept \o <<PathStem(path)>>, ".")

\* C10: get_module_name_from_file returns the kept directory segments and
\* the stem, dot-joined; just the stem when no directory segment is kept;
\* never the empty string.
C10_ModuleName ==
    pcB = "named" =>
        /\ named[2] = IdentifierOf(named[1], project_root)
        /\ (Without(SubSeq(RelativeParts(named[1], project_root), 1,
                           Len(RelativeParts(named[1], project_root)) - 1),
                    common_src_dirs) = <<>>) => named[2] = PathStem(named[1])
        /\ named[2] # ""

\* The name of a file below a removed and a kept directory has been taken.
C10_Witness ==
    /\ pcB = "named"
    /\ named[1] = project_root \o "/src/models/user.py"
    /\ named[2] = "models.user"

-----------------------------------------------------------------------------
(* Properties of the test-file and entry-point heuristics *)

\* The string s holds the marker m at some position.
HoldsAt(s, m) == \E i \in 1..(Len(s) - Len(m) + 1) : SubSeq(s, i, i + Len(m) - 1) = m

\* The lower-cased path mentions a test directory or a test/spec affix.
MentionsTestMarker(path) ==
    LET low == ToLower(path) IN
    \/ HoldsAt(low, "/test/") \/ HoldsAt(low, "/tests/") \/ HoldsAt(low, "/testing/")
    \/ HoldsAt(low, "test_") \/ HoldsAt(low, "_test.") \/ HoldsAt(low, ".test.")
    \/ HoldsAt(low, "spec_") \/ HoldsAt(low, "_spec.") \/ HoldsAt(low, ".spec.")

\* C11: is_test_file answers true exactly for the paths whose lower-cased
\* text holds one of the nine test markers (so false for src/models/user.py
\* and utils.py of a project at /w/proj), and no file it accepts is in the
\* module catalog.
C11_TestFileExact ==
    /\ (pcB = "probed" /\ probed[1] = "is_test_file") =>
           /\ probed[3] = MentionsTestMarker(probed[2])
           /\ probed[2] \in {"/w/proj/src/models/user.py", "/w/proj/utils.py"}
                  => ~probed[3]
    /\ pcB \in {"modules", "imports", "done"} =>
           \A k \in DOMAIN project_files :
               MentionsTestMarker(project_files[k].path)
                   => ~HoldsPath(all_modules, project_files[k].path)

\* is_test_file has accepted a file whose marker shows only after lower-casing.
C11_Witness ==
    /\ pcB = "probed"
    /\ probed = <<"is_test_file", "/w/proj/src/Spec_util.py", TRUE>>

\* The base name is main.*, index.*, cli.*, app.*, server.* or __main__.py.
ConventionalEntryName(path) ==
    LET name == ToLower(PathName(path)) IN
    \/ name = "__main__.py"
    \/ \E stem \in {"main", "index", "cli", "app", "server"} :
           StartsWith(name, stem \o ".") /\ Len(name) > Len(stem) + 1

\* The four layers of the entry-point heuristic, as the claim words them.
EntryLayers(path, root) ==
    \/ \E marker \in entry_patterns : HoldsAt(ToLower(path), marker)
    \/ ConventionalEntryName(path)
    \/ is_language_specific_entry_point(path, ToLower(PathSuffix(path)))
    \/ LET stem == ToLower(PathStem(path))
           name == StripVendorPrefix(ToLower(PathName(root)))
       IN HoldsAt(stem, name) \/ HoldsAt(name, stem) \/ name = "" \/ stem = ""

\* C12 as stated: is_entry_point_file answers true exactly when one of the
\* four layers holds, the second being the base names main.*, index.*,
\* cli.*, __main__.py, app.*, server.*.
C12_AsStated ==
    (pcB = "probed" /\ probed[1] = "is_entry_point_file") =>
        probed[3] = EntryLayers(probed[2], project_root)

-----------------------------------------------------------------------------
(* Properties of the unused-modules report *)

\* The lines of the report text.
ReportLines == Split(report_text, "\n")

\* The line the report holds for the unused module n.
LineOf(n) ==
    "  - " \o n \o " ("
    \o SubSeq(unused_modules[n], Len(project_root) + 2, Len(unused_modules[n])) \o ")"

EntryLineNumbers == {i \in DOMAIN ReportLines : StartsWith(ReportLines[i], "  - ")}

\* The extension heading the group the i-th of the lines stands in: the
\* heading is the nearest line above that ends with " modules:".
GroupOf(lines, i) ==
    LET heads == {h \in 1..i : EndsWith(lines[h], " modules:")}
        h == CHOOSE x \in heads : \A y \in heads : y <= x
    IN SubSeq(lines[h], 1, Len(lines[h]) - Len(" modules:"))

\* The unused module the line lists.
ListedAt(line) == CHOOSE n \in DOMAIN unused_modules : LineOf(n) = line

\* C13: the report is the empty string when nothing is unused; otherwise
\* every unused module is listed on exactly one line, under the heading of
\* its lower-cased extension, each extension has one heading, the lines of
\* a group ascend by (identifier, path), and the count of the first line and
\* the total of the last line are the number of listed entries.
C13_ReportListsAll ==
    pcB = "reported" =>
        IF DOMAIN unused_modules = {} THEN report_text = ""
        ELSE LET lines == ReportLines
                 entries == {i \in DOMAIN lines : StartsWith(lines[i], "  - ")}
                 N == Cardinality(entries)
             IN
             /\ \A n \in DOMAIN unused_modules :
                    Cardinality({i \in entries : lines[i] = LineOf(n)}) = 1
             /\ \A i \in entries :
                    /\ \E n \in DOMAIN unused_modules : lines[i] = LineOf(n)
                    /\ GroupOf(lines, i)
                         = ToLower(PathSuffix(unused_modules[ListedAt(lines[i])]))
             /\ \A i, j \in entries :
                    (i < j /\ GroupOf(lines, i) = GroupOf(lines, j)) =>
                        /\ \A h \in i..j : ~EndsWith(lines[h], " modules:")
                        /\ TupleLess(<<ListedAt(lines[i]), unused_modules[ListedAt(lines[i])]>>,
                                     <<ListedAt(lines[j]), unused_modules[ListedAt(lines[j])]>>)
             /\ N = Cardinality(DOMAIN unused_modules)
             /\ lines[1] = "Found " \o Str(N) \o " unused modules:"
             /\ lines[Len(lines)] = "Total unused modules: " \o Str(N)

\* A report of two groups has been made, one of them holding two modules
\* that the catalog holds in descending order.
C13_Witness ==
    /\ pcB = "reported"
    /\ \E i, j \in EntryLineNumbers : GroupOf(ReportLines, i) # GroupOf(ReportLines, j)
    /\ \E a, b \in DOMAIN project_files :
           /\ a < b
           /\ HoldsPath(unused_modules, project_files[a].path)
           /\ HoldsPath(unused_modules, project_files[b].path)
           /\ PathSuffix(project_files[a].path) = PathSuffix(project_files[b].path)
           /\ StrLess(get_module_name_from_file(project_files[b].path, project_root),
                      get_module_name_from_file(project_files[a].path, project_root))

-----------------------------------------------------------------------------
(* Properties of the binary guard and of the error handling of pipeline A *)

\* The part of the text the guard examines: its first 1000 characters.
Examined(text) == SubSeq(text, 1, IF Len(text) < 1000 THEN Len(text) ELSE 1000)

\* Control characters (below 32, other than newline, carriage return and
\* tab) among the examined characters.
ControlsExamined(text) ==
    Cardinality({i \in 1..Len(Examined(text)) :
                    Char(text, i) \in {NUL, ESC}})

\* No list made or returned so far holds an Artifact of the Document.
NoArtifactFrom(dp) ==
    /\ \A i \in DOMAIN artefacts : artefacts[i].source # dp.id
    /\ \A n \in DOMAIN returned :
           \A i \in DOMAIN returned[n] : returned[n][i].source # dp.id

\* C19 as stated: no Artifact comes from a Document that holds a null byte
\* or in which more than 3% of the examined characters are control
\* characters, whatever the length of the Document.
C19_AsStated ==
    \A d \in DOMAIN doc_parts :
        LET text == doc_parts[d].text IN
        (\/ HoldsAt(text, NUL)
         \/ 100 * ControlsExamined(text) > 3 * Len(Examined(text)))
            => NoArtifactFrom(doc_parts[d])

\* C19 (amended): no Artifact comes from a Document that holds a null byte
\* or more than 30 control characters among its first 1000 characters.
C19_NoArtifactFromBinary ==
    \A d \in DOMAIN doc_parts :
        LET text == doc_parts[d].text IN
        (HoldsAt(text, NUL) \/ ControlsExamined(text) > 30)
            => NoArtifactFrom(doc_parts[d])

\* A call has returned Artifacts for a project that holds a Document with
\* more than 30 control characters and no null byte.
C19_Witness ==
    /\ \E n \in DOMAIN returned : returned[n] # <<>>
    /\ \E d \in DOMAIN doc_parts :
           /\ ~HoldsAt(doc_parts[d].text, NUL)
           /\ ControlsExamined(doc_parts[d].text) > 30
           /\ doc_parts[d].readErr = "none"

\* C20 as stated: whatever error reading or matching a Document raises, the
\* call goes on and the error does not leave collect_docs_artifacts.
C20_AsStated ==
    (\E d \in DOMAIN doc_parts : doc_parts[d].readErr # "none") => pc # "raised"

\* C20 (amended): when reading or matching a Document raises UnicodeError
\* (a decoding failure), ValueError or OSError, the Document is skipped for
\* that rule and the call goes on: an error leaves the call only if it is of
\* another class, and a returned list holds no Artifact of a failing
\* Document and holds every string free of control characters that a rule
\* accepts in a readable Document the binary guard lets through.
C20_CaughtErrorsSkipped ==
    /\ pc = "raised" =>
           \E d \in DOMAIN doc_parts :
               doc_parts[d].readErr \notin {"none", "UnicodeError", "ValueError", "OSError"}
    /\ \A n \in DOMAIN returned :
           /\ \A d \in DOMAIN doc_parts :
                  doc_parts[d].readErr \in {"UnicodeError", "ValueError", "OSError"}
                      => \A i \in DOMAIN returned[n] :
                             returned[n][i].source # doc_parts[d].id
           /\ \A k \in DOMAIN patterns, d \in DOMAIN doc_parts :
                  (doc_parts[d].readErr = "none" /\ ~LooksBinary(doc_parts[d].text)) =>
                      \A s \in Range(Tokens(doc_parts[d].text)) :
                          (Accepts(patterns[k], doc_parts[d], s) /\ ~HoldsAt(s, ESC))
                              => \E i \in DOMAIN returned[n] : returned[n][i].match = s

\* A call has returned the Artifacts of a readable Document although the
\* Document before it raised OSError.
C20_Witness ==
    /\ Len(doc_parts) = 2
    /\ doc_parts[1].readErr = "OSError"
    /\ doc_parts[2].readErr = "none"
    /\ \E n \in DOMAIN returned :
           \E i \in DOMAIN returned[n] : returned[n][i].source = doc_parts[2].id

-----------------------------------------------------------------------------
(* Properties of the existence resolver *)

\* The documentation paths the configuration names, resolved from the root.
ConfiguredDocs ==
    {PRoot \o "/" \o config.documentation_paths[i] : i \in DOMAIN config.documentation_paths}

\* The file belongs to the documentation set: it is configured directly, it
\* is an auto-detected README, or it lies inside a configured directory.
InDocumentationSet(file) ==
    \/ file \in ConfiguredDocs
    \/ StartsWith(PathName(file), "README")
    \/ \E d \in ConfiguredDocs : StartsWith(file, d \o "/")

\* C14 as stated: contains_string answers true exactly when a project file
\* outside the documentation set holds the string; a string that only
\* documentation files hold is not found.
C14_AsStated ==
    (pcP = "asked" /\ asked.op = "contains_string") =>
        asked.result =
            \E i \in DOMAIN file_system :
                /\ ~InDocumentationSet(file_system[i].path)
                /\ HoldsAt(file_system[i].text, asked.arg)

\* The candidate is excluded by one of the four heuristics.
ExcludedByHeuristics(path) ==
    LET segs == Without(Split(path, "/"), {"", "."})
        name == IF Len(segs) = 0 THEN "" ELSE ToLower(segs[Len(segs)])
    IN \/ \E prefix \in OS_ROOT_PATHS : SubSeq(path, 1, Min(Len(prefix), Len(path))) = prefix
       \/ \E frag \in MOCK_FILENAME_PATTERNS : HoldsAt(name, frag)
       \/ \E dir \in MOCK_DIR_PATTERNS : HoldsAt(ToLower(path), dir)
       \/ \E file \in MOCK_PATH_PATTERNS : EndsWith(ToLower(path), file)

\* C15 as stated: contains_path answers true for every candidate that one of
\* the four exclusion heuristics excludes.
C15_AsStated ==
    (pcP = "asked" /\ asked.op = "contains_path" /\ ExcludedByHeuristics(asked.arg))
        => asked.result

\* The segments of the candidate once its leading slashes are stripped.
CandidateSegments(path) == Without(Split(LStripSlashes(path), "/"), {"", "."})

\* The directory of the source Document, "" when the source is no file.
DirectoryOf(source) ==
    IF source.type = "file"
    THEN SubSeq(source.path, 1, Len(source.path) - Len(PathName(source.path)) - 1)
    ELSE ""

\* Filename containment: a file of that name is in the directory of the
\* source Document, or some project file has that base name.
FilenameContainment(name, source) ==
    \/ DirectoryOf(source) # "" /\ IsFile(file_system, DirectoryOf(source) \o "/" \o name)
    \/ \E i \in DOMAIN project.project_files : PathName(project.project_files[i]) = name

\* The candidate exists relative to the directory.
ExistsRelativeTo(dir, segs) == Exists(file_system, Resolved(dir, segs))

\* C17: for a candidate the heuristics let through, contains_path answers,
\* for one segment, what filename containment answers; for several
\* segments, true exactly when the candidate exists relative to the
\* directory of the source Document (when it has one), to the project root,
\* or to a documentation path (the path itself if a directory, its parent if
\* a file).
C17_PathResolution ==
    (pcP = "asked" /\ asked.op = "contains_path" /\ ~ExcludedByHeuristics(asked.arg)) =>
        LET segs == CandidateSegments(asked.arg) IN
        IF Len(segs) = 1
        THEN asked.result = FilenameContainment(segs[1], asked.source)
        ELSE asked.result =
                (\/ /\ DirectoryOf(asked.source) # ""
                    /\ ExistsRelativeTo(DirectoryOf(asked.source), segs)
                 \/ ExistsRelativeTo(PRoot, segs)
                 \/ \E i \in DOMAIN project.doc_paths :
                        LET d == project.doc_paths[i] IN
                        \/ IsDir(file_system, d) /\ ExistsRelativeTo(d, segs)
                        \/ IsFile(file_system, d) /\ ExistsRelativeTo(Parent(d), segs))

\* A path of two segments has been found below a configured documentation
\* directory only: it exists neither next to the README that names it nor
\* below the project root.
C17_Witness ==
    /\ pcP = "asked"
    /\ asked.op = "contains_path"
    /\ asked.arg = "./abc/index.html"
    /\ asked.source = [type |-> "file", path |-> PRoot \o "/README.md"]
    /\ asked.result
    /\ ~ExistsRelativeTo(PRoot, <<"abc", "index.html">>)

\* The positions of "://" in the route.
SchemeEnds(route) == {i \in 2..(Len(route) - 2) : SubSeq(route, i, i + 2) = "://"}

\* The route without a leading scheme://host.
WithoutSchemeHost(route) ==
    IF SchemeEnds(route) = {} THEN route
    ELSE LET i == CHOOSE x \in SchemeEnds(route) : \A y \in SchemeEnds(route) : x <= y
             rest == SubSeq(route, i + 3, Len(route))
             slashes == {k \in 1..Len(rest) : Char(rest, k) = "/"}
         IN IF slashes = {} THEN ""
            ELSE SubSeq(rest, CHOOSE k \in slashes : \A y \in slashes : k <= y, Len(rest))

\* The route without a leading http://host or https://host that a path follows.
WithoutHttpHost(route) ==
    LET cuts == {k \in 1..Len(route) :
                    /\ Char(route, k) = "/"
                    /\ \E sch \in {"http://", "https://"} :
                           /\ k > Len(sch) + 1
                           /\ SubSeq(route, 1, Len(sch)) = sch
                           /\ \A j \in (Len(sch) + 1)..(k - 1) : Char(route, j) # "/"}
    IN IF cuts = {} THEN route
       ELSE SubSeq(route, CHOOSE k \in cuts : TRUE, Len(route))

\* The first segment of the path names a directory directly under the root.
FirstSegmentNamesFolder(path) ==
    LET segs == Without(Split(path, "/"), {""})
    IN Len(segs) > 0 /\ IsDir(file_system, PRoot \o "/" \o segs[1])

EndsWithFileExtension(path) == \E ext \in file_extensions : EndsWith(ToLower(path), ext)

StartsWithOsRoot(path) ==
    \E prefix \in OS_ROOT_PATHS : SubSeq(path, 1, Min(Len(prefix), Len(path))) = prefix

\* C18 as stated: contains_route strips a leading scheme://host; it answers
\* true if the path ends with a non-route extension, starts with an OS root
\* prefix, or has a first segment that names a directory directly under the
\* project root; otherwise it answers what contains_string answers for the
\* stripped path.
C18_AsStated ==
    (pcP = "asked" /\ asked.op = "contains_route") =>
        LET path == WithoutSchemeHost(asked.arg) IN
        asked.result =
            (\/ EndsWithFileExtension(path)
             \/ StartsWithOsRoot(path)
             \/ FirstSegmentNamesFolder(path)
             \/ contains_string(project, file_system, path, asked.source))

\* C18 (amended): contains_route strips a leading http://host or
\* https://host that a path follows; it answers true if the path ends with a
\* non-route extension, starts with an OS root prefix, or starts with "/" and
\* has a first segment that names a directory directly under the project
\* root; otherwise it answers what contains_string answers for the stripped
\* path.
C18_RouteRule ==
    (pcP = "asked" /\ asked.op = "contains_route") =>
        LET path == WithoutHttpHost(asked.arg) IN
        asked.result =
            (\/ EndsWithFileExtension(path)
             \/ StartsWithOsRoot(path)
             \/ (Len(path) > 0 /\ Char(path, 1) = "/" /\ FirstSegmentNamesFolder(path))
             \/ contains_string(project, file_system, path, asked.source))

\* A route that no file holds has been answered true because its first
\* segment is a folder of the project root, for a bare path and for a URL.
C18_Witness ==
    /\ pcP = "asked"
    /\ asked.op = "contains_route"
    /\ asked.arg \in {"/api/users", "http://example.com/api/users"}
    /\ asked.result
    /\ ~contains_string(project, file_system, "/api/users", asked.source)

\* The Documents of the project that mention the string as a word.
Mentioning(s) ==
    {i \in DOMAIN project.doc_parts : s \in Range(Tokens(project.doc_parts[i].text))}

-----------------------------------------------------------------------------
(* Properties of the command line *)

\* start has been invoked for the directory
StartedFor(name) == <<"start", name>> \in Range(events)

\* No use case of a project is run after an exception of that project was
\* caught: behind a "caught" event the project has no further event.
NothingAfterCaught ==
    \A i, j \in DOMAIN events :
        (i < j /\ events[i][1] = "caught") => events[j][2] # events[i][2]

\* C21: with MULTI_FOLDER set, start is eventually invoked for every
\* sub-directory of the folder and main returns; no exception of a project
\* leaves start, and after the exception of a project none of its remaining
\* use cases is run.
C21_EveryProjectStarted ==
    /\ [](multi_folder => (pcM \notin {"aborted", "exit"} /\ NothingAfterCaught))
    /\ (multi_folder /\ pcM = "main")
           ~> (pcM = "done" /\ \A e \in Range(listing) : e.isdir => StartedFor(e.name))

\* A multi-project run has ended in which the TypeError of one project's
\* pattern search was caught before its last use case ran, and start was
\* invoked for a later project.
C21_Witness ==
    /\ multi_folder
    /\ pcM = "done"
    /\ \E i, j \in DOMAIN events :
           /\ i < j
           /\ events[i][1] = "caught" /\ events[i][3] = "TypeError"
           /\ events[j][1] = "start"
           /\ <<"title", events[i][2], "Unused Modules Detection">> \notin Range(events)

-----------------------------------------------------------------------------
(* Properties of collect_json_keys *)

\* The file is a .yaml, .yml or .json file that cannot be read or decoded,
\* or whose text the parser rejects.
MalformedOrUnreadable(file) ==
    /\ PathSuffix(file.path) \in {".yaml", ".yml", ".json"}
    /\ \/ file.readErr # ""
       \/ PathSuffix(file.path) = ".json" /\ json_loads(file.text).err # ""
       \/ PathSuffix(file.path) # ".json" /\ yaml_load(file.text).err # ""

\* C22 as stated: every call of collect_json_keys on a malformed or
\* unreadable .yaml/.yml/.json file returns normally, has logged the failure
\* and has appended nothing to parallel_entities.
C22_AsStated ==
    \A i \in DOMAIN calls :
        MalformedOrUnreadable(calls[i].file) =>
            /\ calls[i].outcome = "returned"
            /\ calls[i].logged = 1
            /\ calls[i].appended = 0

-----------------------------------------------------------------------------
(* Properties of pattern_search.report *)

\* The Artifacts of a rule family that the family's existence check, made
\* with the Artifact's source, does not resolve
UnresolvedStrings ==
    LET found == collect_docs_artifacts(project, string_patterns)
    IN {k \in DOMAIN found :
            ~contains_string(project, file_system, found[k].match, SourceOf(found[k]))}

UnresolvedPaths ==
    LET found == collect_docs_artifacts(project, path_patterns)
    IN {k \in DOMAIN found :
            ~contains_path(project, file_system, found[k].match, SourceOf(found[k]))}

UnresolvedFiles ==
    LET found == collect_docs_artifacts(project, files_patterns)
    IN {k \in DOMAIN found :
            ~contains_file(project, file_system, found[k].match, SourceOf(found[k]))}

\* C23 as stated: report(p) completes without error for every project, and
\* the text it returns holds one line for every unresolved Artifact of the
\* string rules, the path rules and the filename rule, and no other line.
C23_AsStated ==
    pcP \in {"reported", "raised"} =>
        /\ pcP = "reported"
        /\ Len(Split(result, "\n")) - 1
             = Cardinality(UnresolvedStrings) + Cardinality(UnresolvedPaths)
               + Cardinality(UnresolvedFiles)

-----------------------------------------------------------------------------
(* Same-named modules *)

\* The last dot-separated segment of an identifier or of an import
LastSegment(name) == Split(name, ".")[Len(Split(name, "."))]

\* C24: a module of the catalog is used if and only if its identifier and
\* some element of the import closure have the same last dot-separated
\* segment; two modules whose identifiers end in the same segment are both
\* used or both unused.
C24_LastSegmentDecides ==
    pcB = "done" =>
        LET last == {LastSegment(c) : c \in all_imports} IN
        /\ \A n \in DOMAIN all_modules :
               n \notin DOMAIN unused_modules <=> LastSegment(n) \in last
        /\ \A n, m \in DOMAIN all_modules :
               LastSegment(n) = LastSegment(m) =>
                   (n \in DOMAIN unused_modules <=> m \in DOMAIN unused_modules)

\* A run has ended in which core.configuration and other.configuration are
\* both in the catalog, the only raw import that names either of them is the
\* fully qualified core.configuration, and both are used.
C24_Witness ==
    /\ pcB = "done"
    /\ {"core.configuration", "other.configuration"} \subseteq DOMAIN all_modules
    /\ "core.configuration" \in all_imports
    /\ \A k \in DOMAIN project_files :
           project_files[k].imports \cap {"configuration", "other.configuration",
                                          "core/configuration"} = {}
    /\ DOMAIN unused_modules \cap {"core.configuration", "other.configuration"} = {}

-----------------------------------------------------------------------------
(* The same project under another parent directory *)

\* The project files with the project root moved to another place
MovedTo(root) ==
    [k \in DOMAIN project_files |->
        [path |-> root \o SubSeq(project_files[k].path, Len(project_root) + 1,
                                 Len(project_files[k].path)),
         imports |-> project_files[k].imports]]

\* C25 as stated: a project with the same root name and the same files
\* below the root, placed under another parent directory, has the same
\* module identifiers in its catalog and the same unused modules.
C25_AsStated ==
    pcB = "done" =>
        \A root \in Roots :
            PathName(root) = PathName(project_root) =>
                LET modules == collect_all_modules(MovedTo(root), root)
                    imports == collect_all_imports(MovedTo(root))
                IN /\ DOMAIN modules = DOMAIN all_modules
                   /\ DOMAIN UnusedOf(modules, imports) = DOMAIN unused_modules

-----------------------------------------------------------------------------
(* Documentation paths to ignore *)

\* The paths the configuration lists, resolved from the project root
ResolvedPaths(paths) == {resolve_path_from_root(PRoot, paths[i]) : i \in DOMAIN paths}

\* C26 as stated: a path of documentation_paths_to_ignore that is neither
\* listed in documentation_paths nor a README file is no element of
\* doc_paths, no Document is made from it, and a string that stands in it is
\* found by contains_string.
C26_AsStated ==
    pcP # "new" =>
        \A path \in ResolvedPaths(config.documentation_paths_to_ignore) :
            (/\ path \notin ResolvedPaths(config.documentation_paths)
             /\ ~StartsWith(PathName(path), "README"))
            => /\ path \notin Range(project.doc_paths)
               /\ \A k \in DOMAIN project.doc_parts : project.doc_parts[k].id # path
               /\ \A string \in AskedStrings :
                      (IsFile(file_system, path)
                       /\ Contains(ReadText(file_system, path), string))
                      => contains_string(project, file_system, string,
                                         [type |-> "string", path |-> ""])

====
